---- MODULE Spec2Model ----
(***************************************************************************)
(* The request-serving pipeline of the advent-stars API (api/src/main.rs): *)
(* the success cache, the error cache, the fixed-window rate limiter and   *)
(* handle_stars, which sequences them around the two GitHub calls, the     *)
(* size check, validate_input and generate_svg.                            *)
(*                                                                         *)
(* Strings are sequences of one-character strings wherever the code parses *)
(* or joins them (paths, headers, keys, file contents); messages and SVG   *)
(* text are sequences of string fragments built the way format! builds     *)
(* them.                                                                   *)
(*                                                                         *)
(* An Instant is the number of clock ticks that have passed since it was   *)
(* taken: Instant::now() is 0, instant.elapsed() is the number itself, and *)
(* a tick of the clock makes every stored Instant one older. The code and  *)
(* the caches read an Instant only through the time elapsed since it.      *)
(***************************************************************************)
EXTENDS Integers, Sequences, FiniteSets, TLC

VARIABLES
    rate_limiter,        \* AppState.rate_limiter: [window_size, max_requests]
    cache,               \* AppState.cache: cache key -> entry holding the SVG text
    error_cache,         \* AppState.error_cache: cache key -> entry holding a CachedError
    request_counts,      \* AppState.request_counts: ip key -> [window_start, count]
    counts_lock,         \* holders of the request_counts mutex
    req,                 \* one record per in-flight handle_stars call
    window_reqs,         \* history: per ip key, the window in force and the calls decided in it
    last_publish,        \* history: per cache key, the last SVG inserted into cache and when
    last_error,          \* history: per cache key, the last CachedError inserted and the response then given
    evicted,             \* history: the keys whose entry each cache evicted for capacity since its insert
    recent_admits        \* history: per subject under observation, the calls admitted at each of the last instants

vars == <<rate_limiter, cache, error_cache, request_counts, counts_lock, req,
          window_reqs, last_publish, last_error, evicted, recent_admits>>

-----------------------------------------------------------------------------
(* Bounds of the model *)

MaxLimit == 2            \* RATE_LIMIT_MAX_REQUESTS is drawn from 0..MaxLimit
WindowSecs == 2          \* RATE_LIMIT_WINDOW_SECS
CacheTtlSecs == 2        \* CACHE_TTL_SECS
ErrorCacheTtlSecs == 1   \* ERROR_CACHE_TTL_SECS
MaxCacheSize == 1        \* MAX_CACHE_SIZE

(* Program constants *)

MAX_FILE_SIZE == 1024

Reqs == {"r1", "r2"}     \* concurrent handle_stars tasks; a task that returned is reused

\* Option<T>: None is the empty set, Some(v) the set holding v
None == {}
Some(v) == {v}
Unwrap(o) == CHOOSE v \in o : TRUE

-----------------------------------------------------------------------------
(* Strings *)

EndsWith(s, suffix) ==
    /\ Len(s) >= Len(suffix)
    /\ SubSeq(s, Len(s) - Len(suffix) + 1, Len(s)) = suffix

\* str::strip_suffix: Some(prefix) when s ends with suffix, None otherwise
strip_suffix(s, suffix) ==
    IF EndsWith(s, suffix) THEN Some(SubSeq(s, 1, Len(s) - Len(suffix))) ELSE None

\* the index of the first occurrence of character c in s, 0 when there is none
RECURSIVE IndexOf(_, _, _)
IndexOf(s, c, i) ==
    IF i > Len(s) THEN 0
    ELSE IF s[i] = c THEN i
    ELSE IndexOf(s, c, i + 1)

\* s.split(c).next(): the text before the first c, the whole text when there is none
FirstToken(s, c) ==
    IF IndexOf(s, c, 1) = 0 THEN s ELSE SubSeq(s, 1, IndexOf(s, c, 1) - 1)

-----------------------------------------------------------------------------
(* AppError, its three conversions, and responses *)

RateLimitExceeded == [tag |-> "RateLimitExceeded", msg |-> <<>>, size |-> 0, max |-> 0]
GitHubFetchError(m) == [tag |-> "GitHubFetchError", msg |-> m, size |-> 0, max |-> 0]
ValidationError(m) == [tag |-> "ValidationError", msg |-> m, size |-> 0, max |-> 0]
FileTooBig(sz, mx) == [tag |-> "FileTooBig", msg |-> <<>>, size |-> sz, max |-> mx]
NotFound(m) == [tag |-> "NotFound", msg |-> m, size |-> 0, max |-> 0]

FileTooBigText(e) ==
    <<"File size ", ToString(e.size), " bytes exceeds maximum allowed size of ",
      ToString(e.max), " bytes">>

\* a response: status line, body, and the two headers the handler sets itself
Response(status, body, x_cache, x_request_id) ==
    [status |-> status, body |-> body, x_cache |-> x_cache, x_request_id |-> x_request_id]

NoResponse == Response(0, <<>>, "", FALSE)

\* impl IntoResponse for AppError
into_response(e) ==
    CASE e.tag = "RateLimitExceeded" -> Response(429, <<"Rate limit exceeded">>, "", FALSE)
      [] e.tag = "GitHubFetchError" -> Response(500, e.msg, "", FALSE)
      [] e.tag = "ValidationError" -> Response(400, e.msg, "", FALSE)
      [] e.tag = "FileTooBig" -> Response(413, FileTooBigText(e), "", FALSE)
      [] e.tag = "NotFound" -> Response(404, e.msg, "", FALSE)

\* impl fmt::Display for AppError
to_string(e) ==
    CASE e.tag = "RateLimitExceeded" -> <<"Rate limit exceeded">>
      [] e.tag = "GitHubFetchError" -> <<"GitHub fetch error: ">> \o e.msg
      [] e.tag = "ValidationError" -> <<"Validation error: ">> \o e.msg
      [] e.tag = "FileTooBig" -> FileTooBigText(e)
      [] e.tag = "NotFound" -> <<"Not found: ">> \o e.msg

\* a conversion that has no arm of its own for NotFound
StatusCodeFromWithoutNotFound(e) ==
    CASE e.tag = "RateLimitExceeded" -> 429
      [] e.tag = "ValidationError" -> 400
      [] e.tag = "FileTooBig" -> 413
      [] OTHER -> 500

\* impl From<&AppError> for StatusCode
StatusCodeFrom(e) ==
    CASE e.tag = "RateLimitExceeded" -> 429
      [] e.tag = "GitHubFetchError" -> 500
      [] e.tag = "ValidationError" -> 400
      [] e.tag = "FileTooBig" -> 413
      [] e.tag = "NotFound" -> 404

CachedError(status, message) == [status |-> status, message |-> message]

\* get_client_ip: the first comma-separated token of X-Forwarded-For, "unknown" without it
Unknown == <<"u", "n", "k", "n", "o", "w", "n">>
get_client_ip(headers) ==
    IF headers.x_forwarded_for = None THEN Unknown
    ELSE FirstToken(Unwrap(headers.x_forwarded_for), ",")

create_cache_key(user, repo, branch, file) ==
    user \o <<"/">> \o repo \o <<"/">> \o branch \o <<"/">> \o file

-----------------------------------------------------------------------------
(* moka::sync::Cache as main builds it: time_to_live(ttl), time_to_idle(2 * ttl),  *)
(* max_capacity(max_cache_size). A cache is a function from the keys it holds to   *)
(* [value, inserted, accessed].                                                    *)

EmptyCache == [k \in {} |-> 0]

InstantNow == 0
Elapsed(instant) == instant

\* an idle time of half the time to live instead of twice
time_to_idle_halved(ttl) == ttl \div 2

time_to_idle(ttl) == ttl * 2

Expired(e, ttl) ==
    \/ Elapsed(e.inserted) >= ttl
    \/ Elapsed(e.accessed) >= time_to_idle(ttl)

Live(c, k, ttl) == k \in DOMAIN c /\ ~Expired(c[k], ttl)

\* Cache::get: the value of a live entry
CacheGet(c, k, ttl) == IF Live(c, k, ttl) THEN Some(c[k].value) ELSE None

\* a get whose hit refreshes the time to live as well
CacheAfterGetSliding(c, k, ttl) ==
    IF Live(c, k, ttl) THEN [c EXCEPT ![k].accessed = InstantNow, ![k].inserted = InstantNow]
    ELSE c

\* what Cache::get leaves behind: a hit refreshes the idle timer
CacheAfterGet(c, k, ttl) ==
    IF Live(c, k, ttl) THEN [c EXCEPT ![k].accessed = InstantNow] ELSE c

\* Cache::insert: value and both timers are overwritten
CacheInsert(c, k, v) ==
    [x \in DOMAIN c \cup {k} |->
        IF x = k THEN [value |-> v, inserted |-> InstantNow, accessed |-> InstantNow]
        ELSE c[x]]

CacheRemove(c, k) == [x \in DOMAIN c \ {k} |-> c[x]]

\* the clock ticks: every entry is one tick older, and the expired ones are dropped
CacheTick(c, ttl) ==
    LET older == [k \in DOMAIN c |-> [c[k] EXCEPT !.inserted = @ + 1, !.accessed = @ + 1]]
    IN  [k \in {x \in DOMAIN c : ~Expired(older[x], ttl)} |-> older[k]]

-----------------------------------------------------------------------------
(* RateLimiter *)

RateLimiterNew(window_size, max_requests) ==
    [window_size |-> window_size, max_requests |-> max_requests]

is_allowed(rl, count) == count < rl.max_requests

\* HashMap::insert
MapInsert(m, k, v) == [x \in DOMAIN m \cup {k} |-> IF x = k THEN v ELSE m[x]]

\* HashMap::get
MapGet(m, k) == IF k \in DOMAIN m THEN Some(m[k]) ELSE None

-----------------------------------------------------------------------------
(* svg/src/validation.rs *)

IsSpace(c) == c \in {" ", "\t", "\r", "\n"}

RECURSIVE TrimStart(_)
TrimStart(s) ==
    IF s # <<>> /\ IsSpace(Head(s)) THEN TrimStart(Tail(s)) ELSE s

RECURSIVE TrimEnd(_)
TrimEnd(s) ==
    IF s # <<>> /\ IsSpace(s[Len(s)]) THEN TrimEnd(SubSeq(s, 1, Len(s) - 1)) ELSE s

\* str::trim
Trim(s) == TrimEnd(TrimStart(s))

\* str::split(sep): the pieces between the separators, empty pieces included
RECURSIVE Split(_, _)
Split(s, sep) ==
    IF IndexOf(s, sep, 1) = 0 THEN <<s>>
    ELSE <<SubSeq(s, 1, IndexOf(s, sep, 1) - 1)>>
             \o Split(SubSeq(s, IndexOf(s, sep, 1) + 1, Len(s)), sep)

\* str::splitn(2, sep): split at the first separator only
Splitn2(s, sep) ==
    IF IndexOf(s, sep, 1) = 0 THEN <<s>>
    ELSE <<SubSeq(s, 1, IndexOf(s, sep, 1) - 1), SubSeq(s, IndexOf(s, sep, 1) + 1, Len(s))>>

\* str::lines: split at "\n", a "\r" before it dropped, no empty last line; a line
\* that no "\n" ends keeps its "\r"
StripCr(l) == IF l # <<>> /\ l[Len(l)] = "\r" THEN SubSeq(l, 1, Len(l) - 1) ELSE l

Lines(content) ==
    LET raw == Split(content, "\n")
        kept == IF raw[Len(raw)] = <<>> THEN SubSeq(raw, 1, Len(raw) - 1) ELSE raw
    IN  [i \in 1..Len(kept) |-> IF i < Len(raw) THEN StripCr(kept[i]) ELSE kept[i]]

Digits == <<"0", "1", "2", "3", "4", "5", "6", "7", "8", "9">>
IsDigit(c) == \E d \in 1..10 : Digits[d] = c
DigitValue(c) == (CHOOSE d \in 1..10 : Digits[d] = c) - 1

RECURSIVE DigitsValue(_, _, _)
DigitsValue(s, acc, max) ==
    IF s = <<>> THEN acc
    ELSE IF acc * 10 + DigitValue(Head(s)) > max THEN max + 1
    ELSE DigitsValue(Tail(s), acc * 10 + DigitValue(Head(s)), max)

\* str::parse for an unsigned integer type whose largest value is max: an optional
\* "+", then one or more digits
ParseUnsigned(s, max) ==
    LET digits == IF s # <<>> /\ Head(s) = "+" THEN Tail(s) ELSE s IN
    IF s = <<>> THEN [ok |-> FALSE, value |-> 0, error |-> "cannot parse integer from empty string"]
    ELSE IF digits = <<>> \/ \E i \in 1..Len(digits) : ~IsDigit(digits[i])
        THEN [ok |-> FALSE, value |-> 0, error |-> "invalid digit found in string"]
    ELSE IF DigitsValue(digits, 0, max) > max
        THEN [ok |-> FALSE, value |-> 0, error |-> "number too large to fit in target type"]
    ELSE [ok |-> TRUE, value |-> DigitsValue(digits, 0, max), error |-> ""]

U8Max == 255
UsizeMax == 99999       \* the model's usize: every year of the inputs fits

EmptyInput == [tag |-> "EmptyInput", line |-> 0, year |-> 0, count |-> 0, text |-> <<>>]
InvalidLineFormat(line, content) ==
    [tag |-> "InvalidLineFormat", line |-> line, year |-> 0, count |-> 0, text |-> content]
InvalidYear(line, year) ==
    [tag |-> "InvalidYear", line |-> line, year |-> 0, count |-> 0, text |-> year]
InvalidDayCount(year, count) ==
    [tag |-> "InvalidDayCount", line |-> 0, year |-> year, count |-> count, text |-> <<>>]
InvalidStarValue(year) ==
    [tag |-> "InvalidStarValue", line |-> 0, year |-> year, count |-> 0, text |-> <<>>]
ParseError(year, error) ==
    [tag |-> "ParseError", line |-> 0, year |-> year, count |-> 0, text |-> <<error>>]

\* impl fmt::Display for ValidationError
validation_to_string(e) ==
    CASE e.tag = "EmptyInput" -> <<"No valid data found in input">>
      [] e.tag = "InvalidLineFormat" ->
            <<"Invalid line format on line ", ToString(e.line), ": ">> \o e.text
      [] e.tag = "InvalidYear" -> <<"Invalid year on line ", ToString(e.line), ": ">> \o e.text
      [] e.tag = "InvalidDayCount" ->
            <<"Year ", ToString(e.year), " has ", ToString(e.count), " days, expected 25">>
      [] e.tag = "InvalidStarValue" ->
            <<"Year ", ToString(e.year), " has invalid stars (must be 0, 1, or 2)">>
      [] e.tag = "ParseError" -> <<"Error parsing year ", ToString(e.year), ": ">> \o e.text

Ok(v) == [ok |-> TRUE, value |-> v]
Err(e) == [ok |-> FALSE, error |-> e]

\* a loop body whose star check refuses the value 2 as well
ValidateLineBelowTwo(i, line) ==
    LET parts == Splitn2(line, ":")
        year == ParseUnsigned(Trim(parts[1]), UsizeMax)
        pieces == Split(Trim(parts[2]), ",")
        parsed == [d \in 1..Len(pieces) |-> ParseUnsigned(Trim(pieces[d]), U8Max)]
        bad == {d \in 1..Len(pieces) : ~parsed[d].ok}
        firstBad == CHOOSE d \in bad : \A o \in bad : d <= o
        days == [d \in 1..Len(pieces) |-> parsed[d].value]
    IN  IF Len(parts) # 2 THEN Err(InvalidLineFormat(i, line))
        ELSE IF ~year.ok THEN Err(InvalidYear(i, parts[1]))
        ELSE IF bad # {} THEN Err(ParseError(year.value, parsed[firstBad].error))
        ELSE IF Len(days) # 25 THEN Err(InvalidDayCount(year.value, Len(days)))
        ELSE IF \E d \in 1..Len(days) : days[d] >= 2 THEN Err(InvalidStarValue(year.value))
        ELSE Ok(<<year.value, days>>)

\* the body of the loop of validate_input for one non-blank line: Ok(<<year, days>>) or Err
ValidateLine(i, line) ==
    LET parts == Splitn2(line, ":")
        year == ParseUnsigned(Trim(parts[1]), UsizeMax)
        pieces == Split(Trim(parts[2]), ",")
        parsed == [d \in 1..Len(pieces) |-> ParseUnsigned(Trim(pieces[d]), U8Max)]
        bad == {d \in 1..Len(pieces) : ~parsed[d].ok}
        firstBad == CHOOSE d \in bad : \A o \in bad : d <= o
        days == [d \in 1..Len(pieces) |-> parsed[d].value]
    IN  IF Len(parts) # 2 THEN Err(InvalidLineFormat(i, line))
        ELSE IF ~year.ok THEN Err(InvalidYear(i, parts[1]))
        ELSE IF bad # {} THEN Err(ParseError(year.value, parsed[firstBad].error))
        ELSE IF Len(days) # 25 THEN Err(InvalidDayCount(year.value, Len(days)))
        ELSE IF \E d \in 1..Len(days) : days[d] > 2 THEN Err(InvalidStarValue(year.value))
        ELSE Ok(<<year.value, days>>)

\* the loop of validate_input from line i on, years being what was pushed so far
RECURSIVE ValidateFrom(_, _, _)
ValidateFrom(lines, i, years) ==
    IF i > Len(lines) THEN (IF years = <<>> THEN Err(EmptyInput) ELSE Ok(years))
    ELSE IF Trim(lines[i]) = <<>> THEN ValidateFrom(lines, i + 1, years)
    ELSE IF ~ValidateLine(i, lines[i]).ok THEN ValidateLine(i, lines[i])
    ELSE ValidateFrom(lines, i + 1, Append(years, ValidateLine(i, lines[i]).value))

validate_input(content) == ValidateFrom(Lines(content), 1, <<>>)

-----------------------------------------------------------------------------
(* svg/src/lib.rs: the SVG text is the sequence of the fragments pushed to content *)

CELL_SIZE == 20
FONT_SIZE == 12
X_OFFSET == 40
Y_OFFSET == 60
YEAR_Y_OFFSET == 5
PADDING == 20
MATRIX_BORDER == 1

S(n) == ToString(n)

\* a conversion that takes every value from 2 on for a gold star
StarFromTwoUp(value) ==
    CASE value = 1 -> "Silver"
      [] value >= 2 -> "Gold"
      [] OTHER -> "None"

\* impl From<u8> for Star
StarFrom(value) ==
    CASE value = 1 -> "Silver"
      [] value = 2 -> "Gold"
      [] OTHER -> "None"

\* the fill colours of the two star classes: the overrides handle_stars passes, or
\* the defaults of the style block
star_colors(primary_color, secondary_color) ==
    <<".silver { fill: " \o (IF primary_color = None THEN "#6b7280" ELSE Unwrap(primary_color))
          \o "; }",
      ".gold { fill: " \o (IF secondary_color = None THEN "#fbbf24" ELSE Unwrap(secondary_color))
          \o "; }">>

\* SvgBuilder::new: the four sizes
SvgBuilderNew(num_days, num_years) ==
    [matrix_width |-> (num_days + 1) * CELL_SIZE,
     matrix_height |-> num_years * CELL_SIZE,
     width |-> X_OFFSET + (num_days + 1) * CELL_SIZE + PADDING * 2,
     height |-> Y_OFFSET + num_years * CELL_SIZE + PADDING * 4]

add_header(b, primary_color, secondary_color) ==
    <<"<svg xmlns=\"http://www.w3.org/2000/svg\" width=\"" \o S(b.width) \o "\" height=\""
        \o S(b.height) \o "\" viewBox=\"0 0 " \o S(b.width) \o " " \o S(b.height) \o "\">",
      "<style>",
      "@media (prefers-color-scheme: light) { .text .grid-line .matrix-border #24292f }",
      "@media (prefers-color-scheme: dark) { .text .grid-line .matrix-border #c9d1d9 }",
      ".year-label .day-label .total-label .grand-total .star">>
    \o star_colors(primary_color, secondary_color)
    \o <<".matrix-border .grid-line .text",
         "</style>",
         "<rect x=\"" \o S(X_OFFSET - MATRIX_BORDER) \o "\" y=\"" \o S(Y_OFFSET - MATRIX_BORDER)
            \o "\" width=\"" \o S(b.matrix_width + MATRIX_BORDER * 2) \o "\" height=\""
            \o S(b.matrix_height + MATRIX_BORDER * 2) \o "\" class=\"matrix-border\"/>">>

GridLine(x1, y1, x2, y2) ==
    "<line x1=\"" \o S(x1) \o "\" y1=\"" \o S(y1) \o "\" x2=\"" \o S(x2) \o "\" y2=\"" \o S(y2)
        \o "\" class=\"grid-line\"/>"

add_grid(b, num_days, num_years) ==
    [i \in 1..(num_days + 2) |->
        GridLine(X_OFFSET + (i - 1) * CELL_SIZE, Y_OFFSET,
                 X_OFFSET + (i - 1) * CELL_SIZE, Y_OFFSET + b.matrix_height)]
    \o [i \in 1..(num_years + 1) |->
        GridLine(X_OFFSET, Y_OFFSET + (i - 1) * CELL_SIZE,
                 X_OFFSET + b.matrix_width, Y_OFFSET + (i - 1) * CELL_SIZE)]

TextElement(x, y, class, anchor, text) ==
    "<text x=\"" \o S(x) \o "\" y=\"" \o S(y) \o "\" class=\"" \o class \o "\" text-anchor=\""
        \o anchor \o "\">" \o text \o "</text>"

add_year_labels(years) ==
    [i \in 1..Len(years) |->
        TextElement(X_OFFSET - PADDING \div 2,
                    Y_OFFSET + YEAR_Y_OFFSET + (i - 1) * CELL_SIZE + CELL_SIZE \div 2,
                    "year-label text", "end", S(years[i]))]

DayLabel(day) ==
    LET x_position == X_OFFSET + day * CELL_SIZE
        day_num == day + 1
    IN  IF day_num < 10
        THEN TextElement(x_position + CELL_SIZE \div 2, Y_OFFSET - PADDING \div 4,
                         "day-label text", "middle", S(day_num))
        ELSE TextElement(x_position + CELL_SIZE \div 2, Y_OFFSET - PADDING - 2,
                         "day-label text", "middle", S(day_num \div 10))
             \o TextElement(x_position + CELL_SIZE \div 2, Y_OFFSET - PADDING \div 4,
                            "day-label text", "middle", S(day_num % 10))

add_day_labels(num_days) == [d \in 1..num_days |-> DayLabel(d - 1)]

\* the inner loop of add_stars from day_index on: the star elements of one year
RECURSIVE YearStars(_, _, _)
YearStars(days, day_index, y_position) ==
    IF day_index >= Len(days) THEN <<>>
    ELSE IF StarFrom(days[day_index + 1]) = "None" THEN YearStars(days, day_index + 1, y_position)
    ELSE <<TextElement(X_OFFSET + day_index * CELL_SIZE + CELL_SIZE \div 2,
                       y_position + CELL_SIZE \div 2 + FONT_SIZE \div 3,
                       "star " \o (IF StarFrom(days[day_index + 1]) = "Silver"
                                   THEN "silver" ELSE "gold"),
                       "middle", "*")>>
         \o YearStars(days, day_index + 1, y_position)

\* year_total: the values of the days that have a star
RECURSIVE YearTotal(_, _)
YearTotal(days, day_index) ==
    IF day_index >= Len(days) THEN 0
    ELSE (IF StarFrom(days[day_index + 1]) = "None" THEN 0 ELSE days[day_index + 1])
         + YearTotal(days, day_index + 1)

RECURSIVE GrandTotal(_, _)
GrandTotal(years, i) ==
    IF i > Len(years) THEN 0 ELSE YearTotal(years[i][2], 0) + GrandTotal(years, i + 1)

\* the outer loop of add_stars from year i on
RECURSIVE StarsFrom(_, _)
StarsFrom(years, i) ==
    IF i > Len(years) THEN <<>>
    ELSE YearStars(years[i][2], 0, Y_OFFSET + (i - 1) * CELL_SIZE)
         \o <<TextElement(X_OFFSET + Len(years[i][2]) * CELL_SIZE + CELL_SIZE \div 2,
                          Y_OFFSET + (i - 1) * CELL_SIZE + CELL_SIZE \div 2 + FONT_SIZE \div 3,
                          "total-label text", "middle", S(YearTotal(years[i][2], 0)))>>
         \o StarsFrom(years, i + 1)

add_stars(b, years) ==
    StarsFrom(years, 1)
    \o <<TextElement(X_OFFSET + b.matrix_width \div 2, Y_OFFSET + b.matrix_height + PADDING * 2,
                     "grand-total text", "middle", "Total stars: " \o S(GrandTotal(years, 1)))>>

generate_svg(years, primary_color, secondary_color) ==
    LET num_years == Len(years)
        num_days == IF years = <<>> THEN 0 ELSE Len(years[1][2])
        b == SvgBuilderNew(num_days, num_years)
    IN  add_header(b, primary_color, secondary_color)
        \o add_grid(b, num_days, num_years)
        \o add_year_labels([i \in 1..Len(years) |-> years[i][1]])
        \o add_day_labels(num_days)
        \o add_stars(b, years)
        \o <<"</svg>">>

-----------------------------------------------------------------------------
(* The requests the clients send and the answers GitHub gives *)

Chars(user, repo, branch, file) == [user |-> user, repo |-> repo, branch |-> branch, file |-> file]

\* Path((user, repo, branch, file)): two resources of one repository
Paths ==
    {Chars(<<"u">>, <<"r">>, <<"m">>, <<"a", ".", "s", "v", "g">>),
     Chars(<<"u">>, <<"r">>, <<"m">>, <<"b">>)}

\* Query(params)
QueryParams ==
    {[primary_color |-> None, secondary_color |-> None],
     [primary_color |-> Some("#ff0000"), secondary_color |-> None]}

\* the X-Forwarded-For header: absent, or a client followed by a proxy
HeaderMaps ==
    {[x_forwarded_for |-> None],
     [x_forwarded_for |-> Some(<<"9", ",", "8">>)]}

RECURSIVE DaysText(_)
DaysText(days) ==
    IF Len(days) = 1 THEN <<S(days[1])>>
    ELSE <<S(days[1]), ",">> \o DaysText(Tail(days))

YearLine(year, days) == year \o <<":", " ">> \o DaysText(days)

Year2023 == <<"2", "0", "2", "3">>

\* the scenario of the specification: 19 gold stars and a silver one
GoodContent == YearLine(Year2023, [d \in 1..25 |-> IF d <= 19 THEN 2 ELSE IF d = 20 THEN 1 ELSE 0])

\* the same file a day later: the silver star turned gold
LaterContent == YearLine(Year2023, [d \in 1..25 |-> IF d <= 20 THEN 2 ELSE 0])

\* a day value of 3
BadContent == YearLine(Year2023, [d \in 1..25 |-> IF d = 1 THEN 3 ELSE 0])

Contents == {GoodContent, LaterContent, BadContent}

Sizes == {MAX_FILE_SIZE, MAX_FILE_SIZE + 1}

\* the file name asked of GitHub: a trailing ".svg" replaced by ".txt"
txt_file(file) ==
    IF strip_suffix(file, <<".", "s", "v", "g">>) # None
    THEN Unwrap(strip_suffix(file, <<".", "s", "v", "g">>)) \o <<".", "t", "x", "t">>
    ELSE file \o <<".", "t", "x", "t">>

api_url(user, repo, branch, file) ==
    <<"https://api.github.com/repos/">> \o user \o <<"/">> \o repo \o <<"/contents/">>
        \o file \o <<"?ref=">> \o branch

\* GitHubFileMetadata.download_url, as GitHub reports it
download_url(user, repo, branch, file) ==
    <<"https://raw.githubusercontent.com/">> \o user \o <<"/">> \o repo \o <<"/">> \o branch
        \o <<"/">> \o file

\* fetch_github_metadata: what the call can return
MetadataResults(user, repo, branch, file) ==
    {Err(GitHubFetchError(<<"error sending request">>)),
     Err(NotFound(<<"File not found: ">> \o api_url(user, repo, branch, file))),
     Err(GitHubFetchError(<<"Failed to parse metadata: ", "error decoding response body">>))}
    \cup {Ok([size |-> sz, download_url |-> download_url(user, repo, branch, file)]) : sz \in Sizes}

\* fetch_file_content: what the call can return
ContentResults(url) ==
    {Err(GitHubFetchError(<<"error sending request">>)),
     Err(NotFound(<<"File not found: ">> \o url)),
     Err(GitHubFetchError(<<"Failed to read response: ", "error decoding response body">>))}
    \cup {Ok(c) : c \in Contents}

MetadataResultsOf(q) ==
    MetadataResults(q.path.user, q.path.repo, q.path.branch, txt_file(q.path.file))

\* the answers of a GitHub that is reachable and serves a well-formed file
MetadataFound(q) == {r \in MetadataResultsOf(q) : r.ok \/ r.error.tag = "NotFound"}
ContentFound == {Ok(GoodContent), Ok(LaterContent)}

-----------------------------------------------------------------------------
(* The state after main built AppState *)

NoPath == Chars(<<>>, <<>>, <<>>, <<>>)
NoParams == [primary_color |-> None, secondary_color |-> None]
NoMetadata == [size |-> 0, download_url |-> <<>>]
NoRateLimit == [branch |-> "", ordinal |-> 0, count |-> 0]

\* a task that is not running handle_stars
Idle ==
    [pc |-> "idle", path |-> NoPath, params |-> NoParams, cache_key |-> <<>>,
     client_ip |-> <<>>, rl_now |-> 0, current_info |-> None, metadata |-> NoMetadata,
     resp |-> NoResponse, via |-> "", failure |-> "", rl |-> NoRateLimit,
     metadata_calls |-> 0, content_calls |-> 0]

EmptyMap == [k \in {} |-> 0]

\* AppState as main builds it from a configuration, with the given tasks to run handlers
InitWith(tasks, limiters) ==
    /\ rate_limiter \in limiters
    /\ cache = EmptyCache
    /\ error_cache = EmptyCache
    /\ request_counts = EmptyMap
    /\ counts_lock = {}
    /\ req = [r \in tasks |-> Idle]
    /\ window_reqs = EmptyMap
    /\ recent_admits = EmptyMap
    /\ last_publish = EmptyMap
    /\ last_error = EmptyMap
    /\ evicted = [cache |-> {}, error_cache |-> {}]

-----------------------------------------------------------------------------
(* handle_stars, one action per step between two points where other tasks can run *)

\* a finished request: only what it was for and what it answered is kept; failure is
\* the variant of AppError it ended with, "" for a request that was served
Done(q, resp, via, failure) ==
    [Idle EXCEPT !.pc = "done", !.params = q.params,
                 !.cache_key = q.cache_key, !.client_ip = q.client_ip,
                 !.resp = resp, !.via = via, !.failure = failure,
                 !.rl = q.rl, !.metadata = q.metadata,
                 !.metadata_calls = q.metadata_calls, !.content_calls = q.content_calls]

\* check_success_cache: the response for a cached SVG
SuccessCacheResponse(svg_content) == Response(200, svg_content, "HIT", TRUE)

\* a response that ignores the cached status
ErrorCacheResponseInternalError(cached_error) ==
    Response(500, cached_error.message, "", FALSE)

\* check_error_cache: the response for a cached error
ErrorCacheResponse(cached_error) ==
    Response(cached_error.status, cached_error.message, "", FALSE)

\* history: the tasks whose request for key k has looked in the success cache, and
\* the ones whose request has looked in the error cache as well, and is not answered
PastSuccessLookup(k) ==
    {o \in DOMAIN req : req[o].cache_key = k /\ req[o].pc \notin {"idle", "done"}}

PastErrorLookup(k) ==
    {o \in PastSuccessLookup(k) : req[o].pc # "check_error_cache"}

\* a failure path that returns without the insert
InsertErrorSkipped(q, cached_error, resp) ==
    UNCHANGED <<error_cache, last_error, evicted>>

\* state.error_cache.insert(cache_key, CachedError { .. }) and its history
InsertError(q, cached_error, resp) ==
    /\ error_cache' = CacheInsert(error_cache, q.cache_key, cached_error)
    /\ last_error' = MapInsert(last_error, q.cache_key,
                               [cached |-> cached_error, at |-> InstantNow, resp |-> resp,
                                during |-> PastErrorLookup(q.cache_key)])
    /\ evicted' = [evicted EXCEPT !.error_cache = @ \ {q.cache_key}]

\* a first step that looks in the error cache before the success cache
HandleStarsErrorsFirst(r, path, params, headers) ==
    LET cache_key == create_cache_key(path.user, path.repo, path.branch, path.file)
        q == [Idle EXCEPT !.path = path, !.params = params, !.cache_key = cache_key,
                          !.client_ip = get_client_ip(headers)]
        error_hit == CacheGet(error_cache, cache_key, ErrorCacheTtlSecs)
        hit == CacheGet(cache, cache_key, CacheTtlSecs)
    IN  /\ req[r].pc = "idle"
        /\ IF error_hit # None
           THEN /\ error_cache' = CacheAfterGet(error_cache, cache_key, ErrorCacheTtlSecs)
                /\ req' = [req EXCEPT ![r] =
                        Done(q, ErrorCacheResponse(Unwrap(error_hit)), "error_cache", "")]
                /\ UNCHANGED cache
           ELSE /\ cache' = CacheAfterGet(cache, cache_key, CacheTtlSecs)
                /\ req' = [req EXCEPT ![r] =
                        IF hit # None
                        THEN Done(q, SuccessCacheResponse(Unwrap(hit)), "success_cache", "")
                        ELSE [q EXCEPT !.pc = "check_error_cache"]]
                /\ UNCHANGED error_cache
        /\ UNCHANGED <<rate_limiter, request_counts, counts_lock,
                       window_reqs, recent_admits, last_publish, last_error, evicted>>

\* the request arrives; handle_stars builds the key and looks in the success cache
HandleStars(r, path, params, headers) ==
    LET cache_key == create_cache_key(path.user, path.repo, path.branch, path.file)
        q == [Idle EXCEPT !.path = path, !.params = params, !.cache_key = cache_key,
                          !.client_ip = get_client_ip(headers)]
        hit == CacheGet(cache, cache_key, CacheTtlSecs)
    IN  /\ req[r].pc = "idle"
        /\ cache' = CacheAfterGet(cache, cache_key, CacheTtlSecs)
        /\ req' = [req EXCEPT ![r] =
                IF hit # None THEN Done(q, SuccessCacheResponse(Unwrap(hit)), "success_cache", "")
                ELSE [q EXCEPT !.pc = "check_error_cache"]]
        /\ UNCHANGED <<rate_limiter, error_cache, request_counts, counts_lock,
                       window_reqs, recent_admits, last_publish, last_error, evicted>>

\* a handler that goes on to the quota check without looking for a cached failure
CheckErrorCacheSkipped(r) ==
    /\ req[r].pc = "check_error_cache"
    /\ req' = [req EXCEPT ![r].pc = "check_rate_limit"]
    /\ UNCHANGED <<rate_limiter, cache, error_cache, request_counts, counts_lock,
                   window_reqs, recent_admits, last_publish, last_error, evicted>>

CheckErrorCache(r) ==
    LET q == req[r]
        hit == CacheGet(error_cache, q.cache_key, ErrorCacheTtlSecs)
    IN  /\ q.pc = "check_error_cache"
        /\ error_cache' = CacheAfterGet(error_cache, q.cache_key, ErrorCacheTtlSecs)
        /\ req' = [req EXCEPT ![r] =
                IF hit # None THEN Done(q, ErrorCacheResponse(Unwrap(hit)), "error_cache", "")
                ELSE [q EXCEPT !.pc = "check_rate_limit"]]
        /\ UNCHANGED <<rate_limiter, cache, request_counts, counts_lock,
                       window_reqs, recent_admits, last_publish, last_error, evicted>>

\* a key made of the client alone
ip_key_client_only(ip, cache_key) == ip

ip_key(ip, cache_key) == ip \o <<":">> \o cache_key

\* a lock that is not granted while a call to GitHub is in flight
MutexFreeOfFlights(holders) ==
    /\ holders = {}
    /\ \A o \in DOMAIN req : req[o].pc \notin {"fetch_github_metadata", "fetch_file_content"}

\* state.request_counts.lock().await: granted when no task holds the mutex
MutexFree(holders) == holders = {}

\* a guard that is leaked instead of dropped
MutexUnlockForgotten(holders, r) == holders

\* the MutexGuard is dropped when check_rate_limit returns
MutexUnlock(holders, r) == holders \ {r}

\* check_rate_limit up to the match: the lock is taken, the clock and the counter are read
RateLimitLock(r) ==
    LET q == req[r] IN
    /\ q.pc = "check_rate_limit"
    /\ MutexFree(counts_lock)
    /\ counts_lock' = counts_lock \cup {r}
    /\ req' = [req EXCEPT ![r] =
            [q EXCEPT !.pc = "rate_limit_match", !.rl_now = InstantNow,
                      !.current_info = MapGet(request_counts, ip_key(q.client_ip, q.cache_key))]]
    /\ UNCHANGED <<rate_limiter, cache, error_cache, request_counts,
                   window_reqs, recent_admits, last_publish, last_error, evicted>>

\* a match that consults is_allowed before it looks at the age of the window
RateLimitDecisionLimitFirst(limiter, current_info, rl_now) ==
    IF current_info = None
    THEN [branch |-> "first", write |-> Some([window_start |-> rl_now, count |-> 1]), ok |-> TRUE]
    ELSE LET info == Unwrap(current_info) IN
         IF ~is_allowed(limiter, info.count)
         THEN [branch |-> "exceeded", write |-> None, ok |-> FALSE]
         ELSE IF Elapsed(info.window_start) > limiter.window_size
         THEN [branch |-> "expired",
               write |-> Some([window_start |-> rl_now, count |-> 1]), ok |-> TRUE]
         ELSE [branch |-> "incremented",
               write |-> Some([window_start |-> info.window_start, count |-> info.count + 1]),
               ok |-> TRUE]

\* a match that counts the denied calls too
RateLimitDecisionCountsDenied(limiter, current_info, rl_now) ==
    IF current_info = None
    THEN [branch |-> "first", write |-> Some([window_start |-> rl_now, count |-> 1]), ok |-> TRUE]
    ELSE LET info == Unwrap(current_info) IN
         IF Elapsed(info.window_start) > limiter.window_size
         THEN [branch |-> "expired",
               write |-> Some([window_start |-> rl_now, count |-> 1]), ok |-> TRUE]
         ELSE [branch |-> IF is_allowed(limiter, info.count) THEN "incremented" ELSE "exceeded",
               write |-> Some([window_start |-> info.window_start,
                               count |-> IF info.count > limiter.max_requests THEN info.count
                                         ELSE info.count + 1]),
               ok |-> is_allowed(limiter, info.count)]

\* the match of check_rate_limit: the branch taken, the counter written (None when
\* the map is left alone) and the result
RateLimitDecision(limiter, current_info, rl_now) ==
    IF current_info = None
    THEN [branch |-> "first", write |-> Some([window_start |-> rl_now, count |-> 1]), ok |-> TRUE]
    ELSE LET info == Unwrap(current_info) IN
         IF Elapsed(info.window_start) > limiter.window_size
         THEN [branch |-> "expired",
               write |-> Some([window_start |-> rl_now, count |-> 1]), ok |-> TRUE]
         ELSE IF is_allowed(limiter, info.count)
         THEN [branch |-> "incremented",
               write |-> Some([window_start |-> info.window_start, count |-> info.count + 1]),
               ok |-> TRUE]
         ELSE [branch |-> "exceeded", write |-> None, ok |-> FALSE]

\* history, kept by subject <<client, resource>>: the window of the subject as the
\* fixed-window policy defines it, the
\* number of calls decided in it and the number of them that were admitted, both
\* counted up to one past the limit
UpTo(n) == IF n > rate_limiter.max_requests THEN n ELSE n + 1

WindowAfter(k, rl_now, ok) ==
    IF k \in DOMAIN window_reqs /\ Elapsed(window_reqs[k].start) <= rate_limiter.window_size
    THEN [start |-> window_reqs[k].start,
          n |-> UpTo(window_reqs[k].n),
          admitted |-> IF ok THEN UpTo(window_reqs[k].admitted) ELSE window_reqs[k].admitted]
    ELSE [start |-> rl_now, n |-> 1, admitted |-> IF ok THEN 1 ELSE 0]

\* history, kept for the subjects it was started for: the number of calls admitted
\* now and one, two, .. window_size ticks ago
NoAdmits == [age \in 0..WindowSecs |-> 0]

AdmitsAfter(k, ok) ==
    IF k \in DOMAIN recent_admits /\ ok
    THEN [recent_admits EXCEPT ![k][0] = @ + 1]
    ELSE recent_admits

\* a denial handled like the failures of the GitHub calls: cached, then returned
RateLimitExceededCached(r, q) ==
    /\ InsertError(q, CachedError(StatusCodeFrom(RateLimitExceeded), to_string(RateLimitExceeded)),
                   into_response(RateLimitExceeded))
    /\ req' = [req EXCEPT ![r] =
            Done(q, into_response(RateLimitExceeded), "rate_limit", RateLimitExceeded.tag)]

\* Err(AppError::RateLimitExceeded) reaches handle_stars: the request is answered at once
RateLimitExceededReturn(r, q) ==
    /\ req' = [req EXCEPT ![r] =
            Done(q, into_response(RateLimitExceeded), "rate_limit", RateLimitExceeded.tag)]
    /\ UNCHANGED <<error_cache, last_error, evicted>>

\* an insert that reaps the counters whose window has expired
CountsInsertReaping(counts, k, v) ==
    [x \in {k} \cup {y \in DOMAIN counts :
                        Elapsed(counts[y].window_start) <= rate_limiter.window_size} |->
        IF x = k THEN v ELSE counts[x]]

\* counts.insert(ip_key, (window_start, count))
CountsInsert(counts, k, v) == MapInsert(counts, k, v)

\* the match of check_rate_limit and the return: the mutex guard is dropped; a denied
\* request is answered at once, an admitted one sends the metadata request
RateLimitMatch(r) ==
    LET q == req[r]
        k == ip_key(q.client_ip, q.cache_key)
        d == RateLimitDecision(rate_limiter, q.current_info, q.rl_now)
        subject == <<q.client_ip, q.cache_key>>
        w == WindowAfter(subject, q.rl_now, d.ok)
        q2 == [q EXCEPT !.rl = [branch |-> d.branch, ordinal |-> w.n,
                                count |-> IF q.current_info = None THEN 0
                                          ELSE Unwrap(q.current_info).count],
                        !.current_info = None, !.rl_now = 0]
    IN  /\ q.pc = "rate_limit_match"
        /\ request_counts' = IF d.write = None THEN request_counts
                             ELSE CountsInsert(request_counts, k, Unwrap(d.write))
        /\ window_reqs' = MapInsert(window_reqs, subject, w)
        /\ recent_admits' = AdmitsAfter(subject, d.ok)
        /\ counts_lock' = MutexUnlock(counts_lock, r)
        /\ IF d.ok
           THEN /\ req' = [req EXCEPT ![r] = [q2 EXCEPT !.pc = "fetch_github_metadata",
                                                        !.client_ip = <<>>,
                                                        !.metadata_calls = 1]]
                /\ UNCHANGED <<error_cache, last_error, evicted>>
           ELSE RateLimitExceededReturn(r, q2)
        /\ UNCHANGED <<rate_limiter, cache, last_publish>>

\* a failure that falls back to a render of no years
FetchFailedBestEffort(r, e, via) ==
    /\ InsertError(req[r], CachedError(StatusCodeFrom(e), to_string(e)), into_response(e))
    /\ req' = [req EXCEPT ![r] =
            Done(req[r], Response(200, generate_svg(<<>>, None, None), "MISS", TRUE), via, e.tag)]

\* an error of one of the two GitHub calls: cached, then returned
FetchFailed(r, e, via) ==
    /\ InsertError(req[r], CachedError(StatusCodeFrom(e), to_string(e)), into_response(e))
    /\ req' = [req EXCEPT ![r] = Done(req[r], into_response(e), via, e.tag)]

\* a size check that takes MAX_FILE_SIZE for kilobytes
FileSizeExceedsKilobytes(size) == size > MAX_FILE_SIZE * 1024

\* the file size check of handle_stars
FileSizeExceeds(size) == size > MAX_FILE_SIZE

\* fetch_github_metadata returns; handle_stars checks the file size and, for a file
\* that passes, sends the request for its content
FetchMetadataReturn(r, result) ==
    LET q == req[r]
        error == FileTooBig(result.value.size, MAX_FILE_SIZE)
    IN  /\ q.pc = "fetch_github_metadata"
        /\ IF ~result.ok THEN FetchFailed(r, result.error, "fetch_github_metadata")
           ELSE IF FileSizeExceeds(result.value.size)
           THEN /\ InsertError(q, CachedError(413, to_string(error)), into_response(error))
                /\ req' = [req EXCEPT ![r] =
                        Done([q EXCEPT !.metadata = result.value], into_response(error),
                             "check_file_size", error.tag)]
           ELSE /\ req' = [req EXCEPT ![r] = [q EXCEPT !.pc = "fetch_file_content",
                                                       !.metadata = result.value,
                                                       !.rl = NoRateLimit,
                                                       !.content_calls = 1]]
                /\ UNCHANGED <<error_cache, last_error, evicted>>
        /\ UNCHANGED <<rate_limiter, cache, request_counts, counts_lock,
                       window_reqs, recent_admits, last_publish>>

\* a publish that leaves an entry already in the success cache as it is
InsertSvgIfAbsent(q, svg_content) ==
    /\ cache' = IF Live(cache, q.cache_key, CacheTtlSecs) THEN cache
                ELSE CacheInsert(cache, q.cache_key, svg_content)
    /\ last_publish' = MapInsert(last_publish, q.cache_key, [svg |-> svg_content, at |-> InstantNow,
                                  during |-> PastSuccessLookup(q.cache_key)])
    /\ evicted' = [evicted EXCEPT !.cache = @ \ {q.cache_key}]

\* state.cache.insert(cache_key, svg_content) and its history
InsertSvg(q, svg_content) ==
    /\ cache' = CacheInsert(cache, q.cache_key, svg_content)
    /\ last_publish' = MapInsert(last_publish, q.cache_key, [svg |-> svg_content, at |-> InstantNow,
                                  during |-> PastSuccessLookup(q.cache_key)])
    /\ evicted' = [evicted EXCEPT !.cache = @ \ {q.cache_key}]

\* validate_input(&content) for each content GitHub can serve, computed once
Validated == [c \in Contents |-> validate_input(c)]

\* generate_svg(validated_data, params.primary_color, params.secondary_color) for each
\* valid content and each pair of colours, computed once
Generated ==
    [c \in {x \in Contents : Validated[x].ok}, p \in QueryParams |->
        generate_svg(Validated[c].value, p.primary_color, p.secondary_color)]

\* fetch_file_content returns; handle_stars validates the content, generates the SVG
\* and inserts it into the success cache
FetchContentReturn(r, result) ==
    LET q == req[r]
        validated == Validated[result.value]
        error == ValidationError(validation_to_string(validated.error))
        svg_content == Generated[result.value, q.params]
    IN  /\ q.pc = "fetch_file_content"
        /\ IF ~result.ok
           THEN /\ FetchFailed(r, result.error, "fetch_file_content")
                /\ UNCHANGED <<cache, last_publish>>
           ELSE IF ~validated.ok
           THEN /\ InsertError(q, CachedError(400, validation_to_string(validated.error)),
                               into_response(error))
                /\ req' = [req EXCEPT ![r] = Done(q, into_response(error), "validate_input", error.tag)]
                /\ UNCHANGED <<cache, last_publish>>
           ELSE /\ InsertSvg(q, svg_content)
                /\ req' = [req EXCEPT ![r] =
                        Done(q, Response(200, svg_content, "MISS", TRUE), "generate_svg", "")]
                /\ UNCHANGED <<error_cache, last_error>>
        /\ UNCHANGED <<rate_limiter, request_counts, counts_lock, window_reqs, recent_admits>>

\* the response is written to the client and the task ends
Return(r) ==
    /\ req[r].pc = "done"
    /\ req' = [req EXCEPT ![r] = Idle]
    /\ UNCHANGED <<rate_limiter, cache, error_cache, request_counts, counts_lock,
                   window_reqs, recent_admits, last_publish, last_error, evicted>>

\* a disconnect handled like a failure of the call: an error is cached for the key
DisconnectCached(r) ==
    /\ req[r].pc \in {"fetch_github_metadata", "fetch_file_content"}
    /\ InsertError(req[r], CachedError(500, <<"client disconnected">>), NoResponse)
    /\ req' = [req EXCEPT ![r] = Idle]
    /\ UNCHANGED <<rate_limiter, cache, request_counts, counts_lock, window_reqs, recent_admits, last_publish>>

\* the client disconnects while the task is suspended in a GitHub call: the future is dropped
Disconnect(r) ==
    /\ req[r].pc \in {"fetch_github_metadata", "fetch_file_content"}
    /\ req' = [req EXCEPT ![r] = Idle]
    /\ UNCHANGED <<rate_limiter, cache, error_cache, request_counts, counts_lock,
                   window_reqs, recent_admits, last_publish, last_error, evicted>>

-----------------------------------------------------------------------------
(* Time and the caches' own housekeeping *)

\* an Instant one tick later; Instants older than every duration the rate limiter
\* compares them with are all alike
Older(instant) ==
    IF instant > rate_limiter.window_size THEN instant ELSE instant + 1

\* history kept only while the entry it describes could still be live
Recent(h, ttl) ==
    [k \in {x \in DOMAIN h : Elapsed(h[x].at) + 1 < ttl} |-> [h[k] EXCEPT !.at = @ + 1]]

\* the clock ticks
Tick ==
    /\ cache' = CacheTick(cache, CacheTtlSecs)
    /\ error_cache' = CacheTick(error_cache, ErrorCacheTtlSecs)
    /\ request_counts' = [k \in DOMAIN request_counts |->
            [request_counts[k] EXCEPT !.window_start = Older(@)]]
    /\ req' = [r \in DOMAIN req |->
            IF req[r].pc = "rate_limit_match"
            THEN [req[r] EXCEPT !.rl_now = Older(@),
                                !.current_info = {[i EXCEPT !.window_start = Older(@)] : i \in @}]
            ELSE req[r]]
    /\ window_reqs' = [k \in DOMAIN window_reqs |-> [window_reqs[k] EXCEPT !.start = Older(@)]]
    /\ recent_admits' = [k \in DOMAIN recent_admits |->
            [age \in 0..WindowSecs |-> IF age = 0 THEN 0 ELSE recent_admits[k][age - 1]]]
    /\ last_publish' = Recent(last_publish, CacheTtlSecs)
    /\ last_error' = Recent(last_error, ErrorCacheTtlSecs)
    /\ evicted' = [cache |-> evicted.cache \cap DOMAIN last_publish',
                   error_cache |-> evicted.error_cache \cap DOMAIN last_error']
    /\ UNCHANGED <<rate_limiter, counts_lock>>

\* max_capacity: a cache holding more entries than MAX_CACHE_SIZE evicts one of them
EvictCache(k) ==
    /\ Cardinality(DOMAIN cache) > MaxCacheSize
    /\ k \in DOMAIN cache
    /\ cache' = CacheRemove(cache, k)
    /\ evicted' = [evicted EXCEPT !.cache = @ \cup {k}]
    /\ UNCHANGED <<rate_limiter, error_cache, request_counts, counts_lock, req,
                   window_reqs, recent_admits, last_publish, last_error>>

EvictErrorCache(k) ==
    /\ Cardinality(DOMAIN error_cache) > MaxCacheSize
    /\ k \in DOMAIN error_cache
    /\ error_cache' = CacheRemove(error_cache, k)
    /\ evicted' = [evicted EXCEPT !.error_cache = @ \cup {k}]
    /\ UNCHANGED <<rate_limiter, cache, request_counts, counts_lock, req,
                   window_reqs, recent_admits, last_publish, last_error>>

\* the steps of a request that has arrived, but for the returns of the GitHub calls
Local ==
    \/ \E r \in DOMAIN req : CheckErrorCache(r)
    \/ \E r \in DOMAIN req : RateLimitLock(r)
    \/ \E r \in DOMAIN req : RateLimitMatch(r)
    \/ \E r \in DOMAIN req : Return(r)
    \/ \E r \in DOMAIN req : Disconnect(r)
    \/ Tick

Evict ==
    \/ \E k \in DOMAIN cache : EvictCache(k)
    \/ \E k \in DOMAIN error_cache : EvictErrorCache(k)

Limiters == {RateLimiterNew(WindowSecs, n) : n \in 0..MaxLimit}
PathA == Chars(<<"u">>, <<"r">>, <<"m">>, <<"a", ".", "s", "v", "g">>)
NoHeaders == [x_forwarded_for |-> None]

\* two tasks serving one client that asks for one resource, under every configuration
\* of the rate limiter and every answer of GitHub
Init == InitWith(Reqs, Limiters)

Next ==
    \/ \E r \in DOMAIN req : HandleStars(r, PathA, NoParams, NoHeaders)
    \/ \E r \in DOMAIN req :
          \E result \in MetadataResultsOf(req[r]) : FetchMetadataReturn(r, result)
    \/ \E r \in DOMAIN req :
          \E result \in ContentResults(req[r].metadata.download_url) :
              FetchContentReturn(r, result)
    \/ Local

Spec == Init /\ [][Next]_vars

\* one task serving one client that asks for two resources, each cache holding one
\* entry, GitHub reachable and the files well-formed
InitCapacity == InitWith({"r1"}, {RateLimiterNew(WindowSecs, MaxLimit)})

NextCapacity ==
    \/ \E r \in DOMAIN req, path \in Paths : HandleStars(r, path, NoParams, NoHeaders)
    \/ \E r \in DOMAIN req :
          \E result \in MetadataFound(req[r]) : FetchMetadataReturn(r, result)
    \/ \E r \in DOMAIN req :
          \E result \in ContentFound : FetchContentReturn(r, result)
    \/ Local
    \/ Evict

SpecCapacity == InitCapacity /\ [][NextCapacity]_vars

\* two tasks serving one client that asks for one resource with and without a colour
\* override; GitHub serves the file
MetadataServed(q) == {r \in MetadataResultsOf(q) : r.ok /\ ~FileSizeExceeds(r.value.size)}
ContentServed == {Ok(GoodContent)}

InitColors == InitWith(Reqs, {RateLimiterNew(WindowSecs, MaxLimit)})

NextColors ==
    \/ \E r \in DOMAIN req, params \in QueryParams : HandleStars(r, PathA, params, NoHeaders)
    \/ \E r \in DOMAIN req :
          \E result \in MetadataServed(req[r]) : FetchMetadataReturn(r, result)
    \/ \E r \in DOMAIN req :
          \E result \in ContentServed : FetchContentReturn(r, result)
    \/ Local

SpecColors == InitColors /\ [][NextColors]_vars

\* the command line tool: the input file is read, validated and rendered. The file
\* is described by its lines: a blank line, a line without a colon, or a year, a
\* first day value and the number of day values; text and value (-1 for a text that
\* is no number) go together.
DAYS == 25

YearTexts ==
    {[text |-> Year2023, value |-> 2023],
     [text |-> <<"a", "b", "c">>, value |-> -1],
     [text |-> <<>>, value |-> -1]}

DayTexts ==
    {[text |-> <<"0">>, value |-> 0], [text |-> <<"1">>, value |-> 1],
     [text |-> <<"2">>, value |-> 2], [text |-> <<"3">>, value |-> 3],
     [text |-> <<"2", "5", "5">>, value |-> 255], [text |-> <<"2", "5", "6">>, value |-> 256],
     [text |-> <<"x">>, value |-> -1]}

\* the day values after the first: stars of both kinds, then none
RestDay(d) == IF d <= 8 THEN 2 ELSE IF d <= 12 THEN 1 ELSE 0

EntryLines ==
    {[kind |-> "entry", year |-> y, first |-> f, count |-> n] :
        y \in YearTexts, f \in DayTexts, n \in {DAYS - 1, DAYS, DAYS + 1}}

BlankLines ==
    {[kind |-> "blank", year |-> [text |-> t, value |-> -1],
      first |-> [text |-> <<>>, value |-> -1], count |-> 0] : t \in {<<>>, <<" ", "\t">>}}

NoColonLines ==
    {[kind |-> "nocolon", year |-> [text |-> Year2023, value |-> 2023],
      first |-> [text |-> <<"1">>, value |-> 1], count |-> 2]}

InputLines == EntryLines \cup BlankLines \cup NoColonLines

\* the lines a file is framed with: a valid year, a blank line
FrameLines ==
    {l \in EntryLines : l.year.value = 2023 /\ l.first.value = 1 /\ l.count = DAYS}
    \cup {l \in BlankLines : l.year.text = <<>>}

InputFiles ==
    {<<>>} \cup {<<l>> : l \in InputLines}
    \cup {<<f, l>> : f \in FrameLines, l \in InputLines}
    \cup {<<l, f>> : l \in InputLines, f \in FrameLines}

RECURSIVE RestText(_, _)
RestText(d, count) ==
    IF d > count THEN <<>> ELSE <<",", S(RestDay(d))>> \o RestText(d + 1, count)

LineText(l) ==
    IF l.kind = "blank" THEN l.year.text
    ELSE IF l.kind = "nocolon" THEN l.year.text \o <<" ">> \o l.first.text \o RestText(2, l.count)
    ELSE l.year.text \o <<":", " ">> \o l.first.text \o RestText(2, l.count)

RECURSIVE FileText(_)
FileText(lines) ==
    IF lines = <<>> THEN <<>>
    ELSE IF Len(lines) = 1 THEN LineText(lines[1])
    ELSE LineText(lines[1]) \o <<"\n">> \o FileText(Tail(lines))

NoResult == [ok |-> FALSE, error |-> [tag |-> ""]]

\* the state of the server, which the command line tool does not have
NoServer ==
    /\ rate_limiter = RateLimiterNew(WindowSecs, MaxLimit)
    /\ cache = EmptyCache
    /\ error_cache = EmptyCache
    /\ request_counts = EmptyMap
    /\ counts_lock = {}
    /\ window_reqs = EmptyMap
    /\ recent_admits = EmptyMap
    /\ last_publish = EmptyMap
    /\ last_error = EmptyMap
    /\ evicted = [cache |-> {}, error_cache |-> {}]

\* fs::read_to_string(&args.input) has returned the content
InitCli ==
    /\ NoServer
    /\ \E lines \in InputFiles :
          req = [p \in {"cli"} |->
                    [pc |-> "validate_input", lines |-> lines, content |-> FileText(lines),
                     years |-> NoResult, svg_content |-> <<>>]]

\* svg::validate_input(&content), the error returned from main with "?"
CliValidate(p) ==
    LET years == validate_input(req[p].content) IN
    /\ req[p].pc = "validate_input"
    /\ req' = [req EXCEPT ![p] = [@ EXCEPT !.years = years,
                                           !.pc = IF years.ok THEN "generate_svg" ELSE "exit_err"]]
    /\ UNCHANGED <<rate_limiter, cache, error_cache, request_counts, counts_lock,
                   window_reqs, recent_admits, last_publish, last_error, evicted>>

\* svg::generate_svg(years, args.primary_color, args.secondary_color), written out
CliGenerate(p) ==
    /\ req[p].pc = "generate_svg"
    /\ req' = [req EXCEPT ![p] = [@ EXCEPT !.svg_content = generate_svg(req[p].years.value, None, None),
                                           !.pc = "exit_ok"]]
    /\ UNCHANGED <<rate_limiter, cache, error_cache, request_counts, counts_lock,
                   window_reqs, recent_admits, last_publish, last_error, evicted>>

NextCli ==
    \/ \E p \in DOMAIN req : CliValidate(p)
    \/ \E p \in DOMAIN req : CliGenerate(p)

SpecCli == InitCli /\ [][NextCli]_vars

\* generate_svg called as a library function: the lists of up to MaxYearsSvg years
\* of up to MaxDaysSvg day values, a day value being one a star stands for or not
MaxDaysSvg == 2
MaxYearsSvg == 2
DayValues == 0..3
DayVectors == UNION {[1..n -> DayValues] : n \in 0..MaxDaysSvg}
YearsLists ==
    UNION {{[i \in 1..n |-> <<2021 + i, days[i]>>] : days \in [1..n -> DayVectors]} :
              n \in 0..MaxYearsSvg}

InitSvg ==
    /\ NoServer
    /\ \E years \in YearsLists, params \in QueryParams :
          req = [p \in {"svg"} |->
                    [pc |-> "generate_svg", years |-> years, params |-> params,
                     svg_content |-> <<>>]]

\* pub fn generate_svg
GenerateSvg(p) ==
    /\ req[p].pc = "generate_svg"
    /\ req' = [req EXCEPT ![p] =
                  [@ EXCEPT !.svg_content = generate_svg(req[p].years, req[p].params.primary_color,
                                                         req[p].params.secondary_color),
                            !.pc = "returned"]]
    /\ UNCHANGED <<rate_limiter, cache, error_cache, request_counts, counts_lock,
                   window_reqs, recent_admits, last_publish, last_error, evicted>>

NextSvg == \E p \in DOMAIN req : GenerateSvg(p)

SpecSvg == InitSvg /\ [][NextSvg]_vars

\* one task serving two clients: one asks for two resources, the other for one of
\* them; GitHub has none of the files
HeadersOf9 == [x_forwarded_for |-> Some(<<"9", ",", "8">>)]
SubjectRequests ==
    {[path |-> p, headers |-> NoHeaders] : p \in Paths}
    \cup {[path |-> PathA, headers |-> HeadersOf9]}

MetadataNotFound(q) == {r \in MetadataResultsOf(q) : ~r.ok /\ r.error.tag = "NotFound"}

InitSubjects == InitWith({"r1"}, {RateLimiterNew(WindowSecs, MaxLimit)})

NextSubjects ==
    \/ \E r \in DOMAIN req, s \in SubjectRequests : HandleStars(r, s.path, NoParams, s.headers)
    \/ \E r \in DOMAIN req :
          \E result \in MetadataNotFound(req[r]) : FetchMetadataReturn(r, result)
    \/ Local

SpecSubjects == InitSubjects /\ [][NextSubjects]_vars

\* two tasks serving one client that asks for one resource and hangs up before GitHub
\* answers, under every configuration of the rate limiter; the calls admitted to the
\* subject are recorded instant by instant
KeyA == create_cache_key(PathA.user, PathA.repo, PathA.branch, PathA.file)
SubjectA == <<get_client_ip(NoHeaders), KeyA>>

InitBurst ==
    /\ rate_limiter \in Limiters
    /\ cache = EmptyCache
    /\ error_cache = EmptyCache
    /\ request_counts = EmptyMap
    /\ counts_lock = {}
    /\ req = [r \in Reqs |-> Idle]
    /\ window_reqs = EmptyMap
    /\ last_publish = EmptyMap
    /\ last_error = EmptyMap
    /\ evicted = [cache |-> {}, error_cache |-> {}]
    /\ recent_admits = [k \in {SubjectA} |-> NoAdmits]

NextBurst ==
    \/ \E r \in DOMAIN req : HandleStars(r, PathA, NoParams, NoHeaders)
    \/ Local

SpecBurst == InitBurst /\ [][NextBurst]_vars

\* the texts of 1 to n characters of alphabet
TextsUpTo(alphabet, n) == UNION {[1..m -> alphabet] : m \in 1..n}

\* the counter key of one request: the X-Forwarded-For header is absent or a text of
\* digits, colons and commas, and the user of the path a text of letters and colons
MaxHeaderLen == 2
MaxUserLen == 2
ForwardedHeaders ==
    {[x_forwarded_for |-> None]}
    \cup {[x_forwarded_for |-> Some(t)] : t \in TextsUpTo({"9", ":", ","}, MaxHeaderLen)}
ColonPaths ==
    {Chars(user, <<"r">>, <<"m">>, <<"a", ".", "s", "v", "g">>) :
        user \in TextsUpTo({"u", ":"}, MaxUserLen)}

InitIpKey ==
    /\ NoServer
    /\ \E headers \in ForwardedHeaders, path \in ColonPaths :
          req = [p \in {"r1"} |->
                    [pc |-> "handle_stars", path |-> path, headers |-> headers,
                     cache_key |-> <<>>, client_ip |-> <<>>, ip_key |-> <<>>]]

\* handle_stars builds the cache key and takes the client from the headers
HandleStarsKeys(p) ==
    LET q == req[p]
    IN  /\ q.pc = "handle_stars"
        /\ req' = [req EXCEPT ![p] =
                      [q EXCEPT !.cache_key = create_cache_key(q.path.user, q.path.repo,
                                                               q.path.branch, q.path.file),
                                !.client_ip = get_client_ip(q.headers),
                                !.pc = "check_rate_limit"]]
        /\ UNCHANGED <<rate_limiter, cache, error_cache, request_counts, counts_lock,
                       window_reqs, recent_admits, last_publish, last_error, evicted>>

\* check_rate_limit builds the key of the counter
CheckRateLimitKey(p) ==
    LET q == req[p]
    IN  /\ q.pc = "check_rate_limit"
        /\ req' = [req EXCEPT ![p] =
                      [q EXCEPT !.ip_key = ip_key(q.client_ip, q.cache_key),
                                !.pc = "locked"]]
        /\ UNCHANGED <<rate_limiter, cache, error_cache, request_counts, counts_lock,
                       window_reqs, recent_admits, last_publish, last_error, evicted>>

NextIpKey ==
    \/ \E p \in DOMAIN req : HandleStarsKeys(p)
    \/ \E p \in DOMAIN req : CheckRateLimitKey(p)

SpecIpKey == InitIpKey /\ [][NextIpKey]_vars

\* the cache key of one request: the path after "/stars/" is a text of letters,
\* slashes and percent-encoded slashes
MaxPathLen == 8
RawPaths == TextsUpTo({"a", "/", "%2F"}, MaxPathLen)

\* the segment of the route that parameter i of "/:user/:repo/:branch/*file.svg"
\* matches: one segment for the first three, the rest of the path for the wildcard
RouteParam(raw, i) ==
    LET segments == Split(raw, "/")
        taken == Len(segments[1]) + Len(segments[2]) + Len(segments[3]) + 3
    IN  IF i <= 3 THEN segments[i] ELSE SubSeq(raw, taken + 1, Len(raw))

\* the route matches: no parameter is empty
RouteMatches(raw) ==
    /\ Len(Split(raw, "/")) >= 4
    /\ \A i \in 1..4 : RouteParam(raw, i) # <<>>

\* the Path extractor decodes the percent-encoded characters of a parameter
PercentDecode(s) == [i \in 1..Len(s) |-> IF s[i] = "%2F" THEN "/" ELSE s[i]]

\* Path((user, repo, branch, file))
PathOf(raw) ==
    Chars(PercentDecode(RouteParam(raw, 1)), PercentDecode(RouteParam(raw, 2)),
          PercentDecode(RouteParam(raw, 3)), PercentDecode(RouteParam(raw, 4)))

InitCacheKey ==
    /\ NoServer
    /\ \E raw \in RawPaths :
          req = [p \in {"r1"} |->
                    [pc |-> "route", raw |-> raw, path |-> NoPath, cache_key |-> <<>>]]

\* the router finds the route of handle_stars and the extractor gives the path
RouteStars(p) ==
    LET q == req[p]
    IN  /\ q.pc = "route"
        /\ req' = [req EXCEPT ![p] =
                      IF RouteMatches(q.raw)
                      THEN [q EXCEPT !.path = PathOf(q.raw), !.pc = "handle_stars"]
                      ELSE [q EXCEPT !.pc = "not_found"]]
        /\ UNCHANGED <<rate_limiter, cache, error_cache, request_counts, counts_lock,
                       window_reqs, recent_admits, last_publish, last_error, evicted>>

\* handle_stars builds the cache key
HandleStarsCacheKey(p) ==
    LET q == req[p]
    IN  /\ q.pc = "handle_stars"
        /\ req' = [req EXCEPT ![p] =
                      [q EXCEPT !.cache_key = create_cache_key(q.path.user, q.path.repo,
                                                               q.path.branch, q.path.file),
                                !.pc = "check_success_cache"]]
        /\ UNCHANGED <<rate_limiter, cache, error_cache, request_counts, counts_lock,
                       window_reqs, recent_admits, last_publish, last_error, evicted>>

NextCacheKey ==
    \/ \E p \in DOMAIN req : RouteStars(p)
    \/ \E p \in DOMAIN req : HandleStarsCacheKey(p)

SpecCacheKey == InitCacheKey /\ [][NextCacheKey]_vars

\* two tasks serving one client that asks for one resource; every call to GitHub
\* answers, fails in transport or runs into the timeout of the reqwest client, whose
\* error reaches the handler like any other error of send()
TimedOut == Err(GitHubFetchError(<<"error sending request: operation timed out">>))
TransportFailed == Err(GitHubFetchError(<<"error sending request">>))

MetadataLive(q) == {TimedOut, TransportFailed} \cup MetadataServed(q)
ContentLive == {TimedOut, TransportFailed, Ok(GoodContent)}

InitLive == InitWith(Reqs, {RateLimiterNew(WindowSecs, MaxLimit)})

NextLive ==
    \/ \E r \in DOMAIN req : HandleStars(r, PathA, NoParams, NoHeaders)
    \/ \E r \in DOMAIN req :
          \E result \in MetadataLive(req[r]) : FetchMetadataReturn(r, result)
    \/ \E r \in DOMAIN req :
          \E result \in ContentLive : FetchContentReturn(r, result)
    \/ Local

\* the runtime runs every task that can take a step; the tokio mutex serves its
\* waiters in turn; Client::builder().timeout(..) ends every call to GitHub
FairLive ==
    \A r \in Reqs :
        /\ WF_vars(CheckErrorCache(r))
        /\ SF_vars(RateLimitLock(r))
        /\ WF_vars(RateLimitMatch(r))
        /\ WF_vars(\E result \in MetadataLive(req[r]) : FetchMetadataReturn(r, result))
        /\ WF_vars(\E result \in ContentLive : FetchContentReturn(r, result))

SpecLive == InitLive /\ [][NextLive]_vars /\ FairLive

-----------------------------------------------------------------------------
(* The steps of one task, as the properties below name them *)

\* task r runs the first step of handle_stars
Arrives(r) == req[r].pc = "idle" /\ req'[r].pc # "idle"

\* task r runs check_error_cache
LooksUpErrors(r) == req[r].pc = "check_error_cache" /\ req'[r].pc # "check_error_cache"

\* task r runs the match of check_rate_limit
Decides(r) == req[r].pc = "rate_limit_match" /\ req'[r].pc # "rate_limit_match"

\* task r has been through check_rate_limit and was admitted / was denied
Admitted(q) == q.rl.branch \in {"first", "expired", "incremented"}
Denied(q) == q.rl.branch = "exceeded"

-----------------------------------------------------------------------------
(* The fixed-window quota *)

\* C1: of the calls of one subject inside one window, exactly the first max_requests
\* are admitted and every further one is denied: a call is admitted if and only if
\* its position in the window is at most max_requests.
FixedWindowExactlyN ==
    \A r \in DOMAIN req :
        req[r].rl.branch # "" =>
            (Admitted(req[r]) <=> req[r].rl.ordinal <= rate_limiter.max_requests)

\* the same for the configurations with max_requests >= 1
FixedWindowExactlyNPositive == rate_limiter.max_requests >= 1 => FixedWindowExactlyN

\* C2: a call that finds the subject's counter older than window_size is admitted
\* whatever the count the counter holds, and the counter becomes (now, 1).
WindowRollover ==
    [][\A r \in DOMAIN req :
          (/\ Decides(r)
           /\ req[r].current_info # None
           /\ Elapsed(Unwrap(req[r].current_info).window_start) > rate_limiter.window_size)
          => /\ req'[r].pc = "fetch_github_metadata"
             /\ request_counts'[ip_key(req[r].client_ip, req[r].cache_key)]
                    = [window_start |-> req[r].rl_now, count |-> 1]]_vars

\* a call was admitted over an expired counter that had reached the limit
WindowRolloverReached ==
    \E r \in DOMAIN req :
        /\ req[r].rl.branch = "expired"
        /\ req[r].rl.count >= rate_limiter.max_requests
        /\ rate_limiter.max_requests >= 1
        /\ req[r].pc = "fetch_github_metadata"

\* C3: the read, the comparison and the update of a counter are one atomic step under
\* the mutex, so that no two calls are between the read and the write at once and no
\* more than max_requests calls of a subject are admitted in one window.
QuotaAtomicAtMostN ==
    /\ Cardinality({r \in DOMAIN req : req[r].pc = "rate_limit_match"}) <= 1
    /\ \A k \in DOMAIN window_reqs : window_reqs[k].admitted <= rate_limiter.max_requests

\* the same for the configurations with max_requests >= 1
QuotaAtomicAtMostNPositive == rate_limiter.max_requests >= 1 => QuotaAtomicAtMostN

-----------------------------------------------------------------------------
(* The two caches *)

\* task r ends in a failure of a GitHub call, of the size check or of the validation
Fails(r) ==
    /\ req[r].pc \in {"fetch_github_metadata", "fetch_file_content"}
    /\ req'[r].pc = "done"
    /\ req'[r].failure # ""

\* the request made no call to GitHub
NoUpstreamCall(q) == q.metadata_calls = 0 /\ q.content_calls = 0

\* the claim as the specification words it: once a render of a resource was published,
\* every request for it that arrives within the time to live of the success cache
\* is answered 200 with the published text and X-Cache: HIT, without a call to GitHub.
CacheKeyIdempotentWithinTtl ==
    [][\A r \in DOMAIN req :
          (Arrives(r) /\ req'[r].cache_key \in DOMAIN last_publish)
          => /\ req'[r].pc = "done"
             /\ req'[r].resp.status = 200
             /\ req'[r].resp.body = last_publish[req'[r].cache_key].svg
             /\ req'[r].resp.x_cache = "HIT"
             /\ NoUpstreamCall(req'[r])]_vars

\* C4: once a render of a resource was published, every request for it that arrives
\* within the time to live of the success cache, and before the entry was evicted for
\* capacity, is answered 200 with the text of the most recent publish and
\* X-Cache: HIT, without a call to GitHub.
CacheKeyIdempotent ==
    [][\A r \in DOMAIN req :
          (/\ Arrives(r)
           /\ req'[r].cache_key \in DOMAIN last_publish
           /\ req'[r].cache_key \notin evicted.cache)
          => /\ req'[r].pc = "done"
             /\ req'[r].resp.status = 200
             /\ req'[r].resp.body = last_publish[req'[r].cache_key].svg
             /\ req'[r].resp.x_cache = "HIT"
             /\ NoUpstreamCall(req'[r])]_vars

\* a request was answered from the success cache with the text last published while
\* another resource's entry had been evicted for capacity
CacheKeyIdempotentReached ==
    \E r \in DOMAIN req :
        /\ req[r].pc = "done"
        /\ req[r].via = "success_cache"
        /\ req[r].cache_key \in DOMAIN last_publish
        /\ req[r].resp = Response(200, last_publish[req[r].cache_key].svg, "HIT", TRUE)
        /\ NoUpstreamCall(req[r])
        /\ evicted.cache # {}

\* C5: a request denied by check_rate_limit is answered 429 and the step that denies it
\* changes neither the success cache nor the error cache; the error cache never holds
\* an entry of status 429.
DeniedWritesNoCache ==
    /\ [](\A k \in DOMAIN error_cache : error_cache[k].value.status # 429)
    /\ [][\A r \in DOMAIN req :
             (Decides(r) /\ Denied(req'[r]))
             => /\ req'[r].pc = "done"
                /\ req'[r].resp.status = 429
                /\ cache' = cache
                /\ error_cache' = error_cache]_vars

\* a request was denied and answered 429 while the error cache holds nothing for its key
DeniedWritesNoCacheReached ==
    \E r \in DOMAIN req :
        /\ req[r].pc = "done"
        /\ req[r].failure = "RateLimitExceeded"
        /\ req[r].resp.status = 429
        /\ req[r].cache_key \notin DOMAIN error_cache

\* C6: a request that finds a live entry in the error cache is answered with the
\* cached status and message, has made no call to GitHub, and neither its first step
\* nor the lookup changes the map of counters.
NegativeHitFrame ==
    [][\A r \in DOMAIN req :
          /\ Arrives(r) => request_counts' = request_counts
          /\ (LooksUpErrors(r) /\ Live(error_cache, req[r].cache_key, ErrorCacheTtlSecs))
             => /\ req'[r].pc = "done"
                /\ req'[r].resp.status = error_cache[req[r].cache_key].value.status
                /\ req'[r].resp.body = error_cache[req[r].cache_key].value.message
                /\ NoUpstreamCall(req'[r])
                /\ req'[r].rl = NoRateLimit
                /\ request_counts' = request_counts]_vars

\* a request was answered from the error cache while its subject has a counter
NegativeHitFrameReached ==
    \E r \in DOMAIN req :
        /\ req[r].pc = "done"
        /\ req[r].via = "error_cache"
        /\ req[r].resp.status # 200
        /\ NoUpstreamCall(req[r])
        /\ ip_key(req[r].client_ip, req[r].cache_key) \in DOMAIN request_counts

\* C7: a request whose metadata reports more than MAX_FILE_SIZE bytes makes no call
\* for the content, is answered 413 and leaves an entry of status 413 in the error
\* cache under its key; a call for the content is made only by a request whose own
\* metadata call succeeded and reported at most MAX_FILE_SIZE bytes.
SizeBeforeDownload ==
    /\ [](\A r \in DOMAIN req :
            /\ req[r].content_calls > 0
               => /\ req[r].metadata_calls > 0
                  /\ req[r].metadata # NoMetadata
                  /\ req[r].metadata.size <= MAX_FILE_SIZE
            /\ req[r].metadata.size > MAX_FILE_SIZE
               => /\ req[r].pc = "done"
                  /\ req[r].content_calls = 0
                  /\ req[r].resp.status = 413)
    /\ [][\A r \in DOMAIN req :
             (req[r].pc = "fetch_github_metadata" /\ req'[r].metadata.size > MAX_FILE_SIZE)
             => /\ Live(error_cache', req[r].cache_key, ErrorCacheTtlSecs)
                /\ error_cache'[req[r].cache_key].value.status = 413]_vars

\* a request for a file one byte over the maximum was answered 413 without a call for
\* the content, and the error cache holds the 413
SizeBeforeDownloadReached ==
    \E r \in DOMAIN req :
        /\ req[r].pc = "done"
        /\ req[r].metadata.size = MAX_FILE_SIZE + 1
        /\ req[r].resp.status = 413
        /\ req[r].content_calls = 0
        /\ req[r].cache_key \in DOMAIN error_cache
        /\ error_cache[req[r].cache_key].value.status = 413

\* the claim as the specification words it: a failure other than the denial by the
\* rate limiter leaves an entry in the error cache, and every request for the key that
\* looks into the caches within the time to live of that entry fails from the error
\* cache without a call to GitHub.
FailuresCachedEveryLaterFails ==
    [][\A r \in DOMAIN req :
          /\ Fails(r)
             => /\ Live(error_cache', req[r].cache_key, ErrorCacheTtlSecs)
                /\ error_cache'[req[r].cache_key].value.status = req'[r].resp.status
          /\ (Arrives(r) /\ req'[r].cache_key \in DOMAIN last_error)
             => req'[r].pc = "check_error_cache"
          /\ (LooksUpErrors(r) /\ req[r].cache_key \in DOMAIN last_error)
             => /\ req'[r].pc = "done"
                /\ req'[r].resp.status = last_error[req[r].cache_key].cached.status
                /\ NoUpstreamCall(req'[r])]_vars

\* C8: a failure other than the denial by the rate limiter leaves an entry in the error
\* cache before the response is returned; a request for the key that looks into the
\* error cache within the time to live of that entry, and before the entry was evicted
\* for capacity, fails with the cached status without a call to GitHub; a request
\* that arrives in that time makes no call to GitHub in its first step and, if it is
\* answered there, is answered 200 from the success cache.
FailuresCached ==
    [][\A r \in DOMAIN req :
          /\ Fails(r)
             => /\ Live(error_cache', req[r].cache_key, ErrorCacheTtlSecs)
                /\ error_cache'[req[r].cache_key].value.status = req'[r].resp.status
          /\ (Arrives(r) /\ req'[r].cache_key \in DOMAIN last_error)
             => /\ NoUpstreamCall(req'[r])
                /\ req'[r].pc = "done"
                   => req'[r].via = "success_cache" /\ req'[r].resp.status = 200
          /\ (/\ LooksUpErrors(r)
              /\ req[r].cache_key \in DOMAIN last_error
              /\ req[r].cache_key \notin evicted.error_cache)
             => /\ req'[r].pc = "done"
                /\ req'[r].resp.status = last_error[req[r].cache_key].cached.status
                /\ NoUpstreamCall(req'[r])]_vars

\* a validation failure was cached and a later request was answered 400 from the entry
FailuresCachedReached ==
    \E r \in DOMAIN req :
        /\ req[r].pc = "done"
        /\ req[r].via = "error_cache"
        /\ req[r].cache_key \in DOMAIN last_error
        /\ last_error[req[r].cache_key].cached.status = 400
        /\ req[r].resp.status = 400
        /\ NoUpstreamCall(req[r])

\* the status the specification fixes for each variant of AppError
FixedStatus ==
    [RateLimitExceeded |-> 429, NotFound |-> 404, FileTooBig |-> 413,
     ValidationError |-> 400, GitHubFetchError |-> 500]

\* C9: a request that ends in a failure is answered with the status fixed for the
\* variant of the failure; the status stored in the error cache for a failure equals
\* the status of the response to the request that met it, and so does the status of
\* every response served from that entry.
StatusMapping ==
    /\ [](\A r \in DOMAIN req :
            (req[r].pc = "done" /\ req[r].failure # "")
            => req[r].resp.status = FixedStatus[req[r].failure])
    /\ [](\A k \in DOMAIN last_error :
            /\ last_error[k].cached.status = last_error[k].resp.status
            /\ (k \in DOMAIN error_cache => error_cache[k].value = last_error[k].cached))
    /\ [][\A r \in DOMAIN req :
             (LooksUpErrors(r) /\ req'[r].pc = "done")
             => /\ req[r].cache_key \in DOMAIN last_error
                /\ req'[r].resp.status = last_error[req[r].cache_key].resp.status]_vars

\* one request met NotFound and was answered 404, another was answered 404 from the
\* entry the first one left
StatusMappingReached ==
    \E r, other \in DOMAIN req :
        /\ req[r].pc = "done"
        /\ req[r].failure = "NotFound"
        /\ req[r].resp.status = 404
        /\ req[other].pc = "done"
        /\ req[other].via = "error_cache"
        /\ req[other].resp.status = 404

\* C10: whatever requests for one key run at once, the success cache holds one value
\* for the key, the text of the most recent publish, and every hit returns that value.
ConcurrentMissConvergence ==
    /\ [](\A k \in DOMAIN cache :
            /\ k \in DOMAIN last_publish
            /\ cache[k].value = last_publish[k].svg)
    /\ [][\A r \in DOMAIN req :
             (Arrives(r) /\ req'[r].via = "success_cache")
             => /\ req'[r].cache_key \in DOMAIN last_publish
                /\ req'[r].resp.body = last_publish[req'[r].cache_key].svg]_vars

\* two requests for one key missed together and published different texts; the cache
\* holds the text of one of them
ConcurrentMissConvergenceReached ==
    \E r, other \in DOMAIN req :
        /\ req[r].via = "generate_svg"
        /\ req[other].via = "generate_svg"
        /\ req[r].cache_key = req[other].cache_key
        /\ req[r].resp.body # req[other].resp.body
        /\ req[r].cache_key \in DOMAIN cache
        /\ cache[req[r].cache_key].value = req[other].resp.body

-----------------------------------------------------------------------------
(* Responses, cancellation and the order of the lookups *)

\* C11: every response handle_stars returns, whatever its status, carries the
\* X-Request-ID header of its request.
EveryResponseHasRequestId ==
    \A r \in DOMAIN req : req[r].pc = "done" => req[r].resp.x_request_id

\* task r changes its place in handle_stars
Moves(r) == req[r].pc # req'[r].pc

\* the caller of task r disconnects while the task waits for GitHub
Abandons(r) ==
    /\ req[r].pc \in {"fetch_github_metadata", "fetch_file_content"}
    /\ req'[r].pc = "idle"

\* no entry of cache c was inserted or overwritten on the way to cache d
NothingInserted(c, d) ==
    \A k \in DOMAIN d :
        /\ k \in DOMAIN c
        /\ d[k].value = c[k].value
        /\ d[k].inserted = c[k].inserted

\* C12: a request inserts into the success cache or the error cache only in the step
\* that ends it with a response; a request that is abandoned while it waits for the
\* metadata or for the content has inserted nothing into either cache, and the step
\* that abandons it inserts nothing.
AbandonedLeavesCachesClean ==
    [][\A r \in DOMAIN req :
          (Moves(r) /\ (req'[r].pc # "done" \/ Abandons(r)))
          => /\ NothingInserted(cache, cache')
             /\ NothingInserted(error_cache, error_cache')]_vars

\* a request was admitted at this instant, no task is running and both caches are
\* empty: the request was abandoned
AbandonedLeavesCachesCleanReached ==
    /\ \E k \in DOMAIN request_counts : Elapsed(request_counts[k].window_start) = 0
    /\ \A r \in DOMAIN req : req[r].pc = "idle"
    /\ cache = EmptyCache
    /\ error_cache = EmptyCache
    /\ last_publish = EmptyMap
    /\ last_error = EmptyMap

\* C13: when the only request in flight is abandoned while it waits for the metadata,
\* the counter of its subject is what it was before the request: absent if the request
\* created it, with the count the request found otherwise.
AbandonedLeavesQuotaClean ==
    [][\A r \in DOMAIN req :
          (Abandons(r) /\ req[r].rl # NoRateLimit)
          => LET k == ip_key(get_client_ip(NoHeaders), req[r].cache_key) IN
             IF req[r].rl.branch = "first" THEN k \notin DOMAIN request_counts'
             ELSE /\ k \in DOMAIN request_counts'
                  /\ request_counts'[k].count = req[r].rl.count]_vars

\* C19: a request that finds a live entry of the success cache for its key is answered
\* 200 with the cached text and X-Cache: HIT in its first step; that step does not
\* touch the error cache or the counters, calls GitHub for nothing, and changes of
\* the success cache only the idle timer of the entry.
PositiveLookupFirst ==
    [][\A r \in DOMAIN req :
          (Arrives(r) /\ Live(cache, req'[r].cache_key, CacheTtlSecs))
          => /\ req'[r].pc = "done"
             /\ req'[r].resp.status = 200
             /\ req'[r].resp.body = cache[req'[r].cache_key].value
             /\ req'[r].resp.x_cache = "HIT"
             /\ NoUpstreamCall(req'[r])
             /\ req'[r].rl = NoRateLimit
             /\ error_cache' = error_cache
             /\ request_counts' = request_counts
             /\ DOMAIN cache' = DOMAIN cache
             /\ NothingInserted(cache, cache')]_vars

\* a request was answered from the success cache while the error cache holds a live
\* entry for the same key
PositiveLookupFirstReached ==
    \E r \in DOMAIN req :
        /\ req[r].pc = "done"
        /\ req[r].via = "success_cache"
        /\ req[r].resp.x_cache = "HIT"
        /\ Live(error_cache, req[r].cache_key, ErrorCacheTtlSecs)

\* C20: a call of check_rate_limit that finds the counter of its subject inside its
\* window with a count of at least max_requests returns RateLimitExceeded and leaves
\* every counter of the map, this one included, as it was.
DeniedLeavesCounters ==
    [][\A r \in DOMAIN req :
          (/\ Decides(r)
           /\ req[r].current_info # None
           /\ Elapsed(Unwrap(req[r].current_info).window_start) <= rate_limiter.window_size
           /\ Unwrap(req[r].current_info).count >= rate_limiter.max_requests)
          => /\ Denied(req'[r])
             /\ req'[r].failure = "RateLimitExceeded"
             /\ request_counts' = request_counts]_vars

\* a call was denied with the limit at least 1 and the counter still holds the count
\* the call found
DeniedLeavesCountersReached ==
    \E r \in DOMAIN req :
        /\ Denied(req[r])
        /\ rate_limiter.max_requests >= 1
        /\ req[r].rl.count >= rate_limiter.max_requests
        /\ ip_key(req[r].client_ip, req[r].cache_key) \in DOMAIN request_counts
        /\ request_counts[ip_key(req[r].client_ip, req[r].cache_key)].count = req[r].rl.count

-----------------------------------------------------------------------------
(* Expiry *)

\* a lookup of key k that found cache c and left cache d, h being the history of the
\* inserts: a hit only on an entry inserted less than ttl ago and read less than
\* 2 * ttl ago, which keeps its insert time and restarts its idle time; a miss only
\* when no insert of the key is younger than ttl
LookupRespectsExpiry(hit, c, d, h, k, ttl) ==
    IF hit
    THEN /\ k \in DOMAIN h
         /\ Elapsed(h[k].at) < ttl
         /\ k \in DOMAIN c
         /\ Elapsed(c[k].inserted) = Elapsed(h[k].at)
         /\ Elapsed(c[k].accessed) < 2 * ttl
         /\ d[k].inserted = c[k].inserted
         /\ d[k].accessed = InstantNow
    ELSE /\ k \notin DOMAIN h
         /\ d = c

\* C15: in both caches a get hits only an entry whose insert is less than the time to
\* live ago and whose last get is less than twice the time to live ago, and misses
\* once the time to live has passed since the insert; a hit restarts the idle time
\* and leaves the insert time alone, so no entry is served later than the time to
\* live after its insert however often it is hit.
CacheExpiry ==
    [][\A r \in DOMAIN req :
          /\ Arrives(r)
             => LookupRespectsExpiry(req'[r].via = "success_cache", cache, cache',
                                     last_publish, req'[r].cache_key, CacheTtlSecs)
          /\ LooksUpErrors(r)
             => LookupRespectsExpiry(req'[r].via = "error_cache", error_cache, error_cache',
                                     last_error, req[r].cache_key, ErrorCacheTtlSecs)]_vars

\* an entry of the success cache was hit in the last tick of its time to live
CacheExpiryReached ==
    \E r \in DOMAIN req :
        /\ req[r].via = "success_cache"
        /\ req[r].cache_key \in DOMAIN cache
        /\ Elapsed(cache[req[r].cache_key].inserted) = CacheTtlSecs - 1
        /\ Elapsed(cache[req[r].cache_key].accessed) = 0
        /\ CacheTtlSecs > 1

-----------------------------------------------------------------------------
(* Subjects of the quota *)

\* C16: a call of check_rate_limit for the subject (client, resource) leaves the
\* counter of every other key as it was, and whether it admits the request depends on
\* the earlier calls of the same subject alone: it admits when the subject has no
\* window, when its window is over, or when fewer than max_requests calls of it were
\* admitted in the window, whatever other clients and other resources were served.
SubjectsIndependent ==
    [][\A r \in DOMAIN req :
          Decides(r)
          => LET subject == <<req[r].client_ip, req[r].cache_key>>
                 k == req[r].client_ip \o <<":">> \o req[r].cache_key
             IN  /\ \A j \in DOMAIN request_counts' :
                        j # k => j \in DOMAIN request_counts
                                 /\ request_counts'[j] = request_counts[j]
                 /\ Admitted(req'[r])
                    <=> \/ subject \notin DOMAIN window_reqs
                        \/ Elapsed(window_reqs[subject].start) > rate_limiter.window_size
                        \/ window_reqs[subject].admitted < rate_limiter.max_requests]_vars

\* a request of one subject was denied while the two other subjects have counters
\* below the limit
SubjectsIndependentReached ==
    \E r \in DOMAIN req :
        /\ Denied(req[r])
        /\ Cardinality(DOMAIN request_counts) = 3
        /\ \A j \in DOMAIN request_counts :
               j # ip_key(req[r].client_ip, req[r].cache_key)
               => request_counts[j].count < rate_limiter.max_requests

-----------------------------------------------------------------------------
(* Colour overrides *)

\* task r inserts the SVG it generated
Publishes(r) == req[r].pc = "fetch_file_content" /\ req'[r].via = "generate_svg"

\* the SVGs generate_svg gives with the colours of params
RendersOf(params) == {Generated[c, params] : c \in {x \in Contents : Validated[x].ok}}

-----------------------------------------------------------------------------
(* validate_input, checked against the description of the file by its lines *)

\* the day values a line of the file stands for
EntryValues(l) == [d \in 1..l.count |-> IF d = 1 THEN l.first.value ELSE RestDay(d)]

\* the entries validate_input is to return for a file without a bad line
RECURSIVE Entries(_)
Entries(lines) ==
    IF lines = <<>> THEN <<>>
    ELSE (IF lines[1].kind = "blank" THEN <<>>
          ELSE <<(<<lines[1].year.value, EntryValues(lines[1])>>)>>)
         \o Entries(Tail(lines))

\* the process has called validate_input
Validates(q) == q.pc \in {"generate_svg", "exit_ok", "exit_err"}

\* the rules of the four variants that a line breaks, a day value being greater than 2
\* whatever its size
RulesBroken(l) ==
    IF l.kind = "blank" THEN {}
    ELSE IF l.kind = "nocolon" THEN {"InvalidLineFormat"}
    ELSE (IF l.year.value < 0 THEN {"InvalidYear"} ELSE {})
         \cup (IF l.count # 25 THEN {"InvalidDayCount"} ELSE {})
         \cup (IF l.first.value > 2 THEN {"InvalidStarValue"} ELSE {})

\* a line with a numeric year and 25 day values from 0 to 2
ValidLine(l) ==
    l.kind = "entry" /\ l.year.value >= 0 /\ l.count = 25 /\ l.first.value \in 0..2

\* the claim as the specification words it: an input of numeric day values with a
\* line that breaks one of the four rules (day count, star value, year, line format)
\* is rejected with the variant of a rule one of its lines breaks; an input of valid
\* and blank lines with
\* at least one valid line is accepted with one entry per non-blank line.
ValidationNamesTheRule ==
    \A p \in DOMAIN req :
        Validates(req[p]) =>
            LET lines == req[p].lines
                rules == UNION {RulesBroken(lines[i]) : i \in 1..Len(lines)}
                numeric == \A i \in 1..Len(lines) :
                               lines[i].kind = "entry" => lines[i].first.value >= 0
            IN  /\ rules # {} /\ numeric
                       => ~req[p].years.ok /\ req[p].years.error.tag \in rules
                /\ (/\ \A i \in 1..Len(lines) : lines[i].kind = "blank" \/ ValidLine(lines[i])
                    /\ \E i \in 1..Len(lines) : ValidLine(lines[i]))
                   => req[p].years.ok /\ req[p].years.value = Entries(lines)

\* the first check of validate_input that a line fails, "" for a line that passes:
\* the colon, the year, every day value an integer from 0 to 255, 25 day values,
\* no day value greater than 2
FirstCheckFailed(l) ==
    IF l.kind = "nocolon" THEN "InvalidLineFormat"
    ELSE IF l.year.value < 0 THEN "InvalidYear"
    ELSE IF l.first.value \notin 0..255 THEN "ParseError"
    ELSE IF l.count # 25 THEN "InvalidDayCount"
    ELSE IF l.first.value > 2 THEN "InvalidStarValue"
    ELSE ""

\* C17: validate_input rejects an input with the variant of the first check that the
\* first bad line fails, the checks of a non-blank line being in this order: a colon
\* (InvalidLineFormat, with the line number), a numeric year (InvalidYear, with the
\* line number), every day value an integer from 0 to 255 (ParseError), 25 day values
\* (InvalidDayCount), no day value greater than 2 (InvalidStarValue); an input without
\* a bad line is accepted with one (year, 25 day values) entry per non-blank line,
\* and rejected with EmptyInput if it has no such line.
ValidationFirstFailedCheck ==
    \A p \in DOMAIN req :
        Validates(req[p]) =>
            LET lines == req[p].lines
                bad == {i \in 1..Len(lines) :
                            lines[i].kind # "blank" /\ FirstCheckFailed(lines[i]) # ""}
                first == CHOOSE i \in bad : \A j \in bad : i <= j
                years == req[p].years
            IN  IF bad = {}
                THEN IF Entries(lines) = <<>>
                     THEN ~years.ok /\ years.error.tag = "EmptyInput"
                     ELSE years.ok /\ years.value = Entries(lines)
                ELSE /\ ~years.ok
                     /\ years.error.tag = FirstCheckFailed(lines[first])
                     /\ IF years.error.tag \in {"InvalidLineFormat", "InvalidYear"}
                        THEN years.error.line = first
                        ELSE years.error.year = lines[first].year.value

\* a file whose second line has the day value 255 was rejected with InvalidStarValue
ValidationFirstFailedCheckReached ==
    \E p \in DOMAIN req :
        /\ req[p].pc = "exit_err"
        /\ Len(req[p].lines) = 2
        /\ ValidLine(req[p].lines[1])
        /\ req[p].lines[2].first.value = 255
        /\ req[p].years.error.tag = "InvalidStarValue"

-----------------------------------------------------------------------------
(* generate_svg, checked against the list of years it was given *)

RECURSIVE SumOfValues(_)
SumOfValues(days) == IF days = <<>> THEN 0 ELSE days[1] + SumOfValues(Tail(days))

RECURSIVE SumOfYears(_)
SumOfYears(years) ==
    IF years = <<>> THEN 0 ELSE SumOfValues(years[1][2]) + SumOfYears(Tail(years))

\* the sum of the day values that are 1 or 2
RECURSIVE SumOfStars(_)
SumOfStars(years) ==
    IF years = <<>> THEN 0
    ELSE Cardinality({d \in DOMAIN years[1][2] : years[1][2][d] = 1})
         + 2 * Cardinality({d \in DOMAIN years[1][2] : years[1][2][d] = 2})
         + SumOfStars(Tail(years))

\* the text element that draws a star of a class in the cell of day d of year i
Marker(i, d, class) ==
    TextElement(X_OFFSET + (d - 1) * CELL_SIZE + CELL_SIZE \div 2,
                Y_OFFSET + (i - 1) * CELL_SIZE + CELL_SIZE \div 2 + FONT_SIZE \div 3,
                "star " \o class, "middle", "*")

\* how many elements of the text are the marker of a class in that cell
MarkersAt(svg, i, d, class) == Cardinality({k \in DOMAIN svg : svg[k] = Marker(i, d, class)})

\* how many elements of the text are markers of a class, in whatever cell
MarkersOf(svg, class) ==
    Cardinality({k \in DOMAIN svg :
                    \E i \in 1..(MaxYearsSvg + 1), d \in 1..(MaxDaysSvg + 1) :
                        svg[k] = Marker(i, d, class)})

\* the text has the grand total element with the total s
HasTotal(svg, years, s) ==
    LET num_days == IF years = <<>> THEN 0 ELSE Len(years[1][2]) IN
    \E k \in DOMAIN svg :
        svg[k] = TextElement(X_OFFSET + ((num_days + 1) * CELL_SIZE) \div 2,
                             Y_OFFSET + Len(years) * CELL_SIZE + PADDING * 2,
                             "grand-total text", "middle", "Total stars: " \o S(s))

\* the cells of a list of years that hold a value of a set
CellsWith(years, values) ==
    {c \in (DOMAIN years) \X (1..(MaxDaysSvg + 1)) :
        c[2] \in DOMAIN years[c[1]][2] /\ years[c[1]][2][c[2]] \in values}

\* the claim as the specification words it: for every list of years the text has
\* 'Total stars: S' with S the sum of all day values of all years, one silver marker
\* per day value 1, one gold marker per day value 2 and no marker for a day value 0.
TotalIsSumOfAllValues ==
    \A p \in DOMAIN req :
        req[p].pc = "returned" =>
            LET years == req[p].years
                svg == req[p].svg_content
            IN  /\ HasTotal(svg, years, SumOfYears(years))
                /\ \A c \in CellsWith(years, {1}) : MarkersAt(svg, c[1], c[2], "silver") = 1
                /\ \A c \in CellsWith(years, {2}) : MarkersAt(svg, c[1], c[2], "gold") = 1
                /\ \A c \in CellsWith(years, {0}) :
                      MarkersAt(svg, c[1], c[2], "silver") + MarkersAt(svg, c[1], c[2], "gold") = 0

\* C18: for every list of years the text of generate_svg has 'Total stars: S' with S
\* the sum of the day values that are 1 or 2 (the sum of all day values when none is
\* greater than 2), exactly one silver marker per day value 1, exactly one gold
\* marker per day value 2, and no marker for any other day value.
TotalIsSumOfStars ==
    \A p \in DOMAIN req :
        req[p].pc = "returned" =>
            LET years == req[p].years
                svg == req[p].svg_content
            IN  /\ HasTotal(svg, years, SumOfStars(years))
                /\ \A c \in CellsWith(years, {1}) : MarkersAt(svg, c[1], c[2], "silver") = 1
                /\ \A c \in CellsWith(years, {2}) : MarkersAt(svg, c[1], c[2], "gold") = 1
                /\ MarkersOf(svg, "silver") = Cardinality(CellsWith(years, {1}))
                /\ MarkersOf(svg, "gold") = Cardinality(CellsWith(years, {2}))

\* two years were rendered that hold a 1, a 2, a 0 and a 3 between them
TotalIsSumOfStarsReached ==
    \E p \in DOMAIN req :
        /\ req[p].pc = "returned"
        /\ Len(req[p].years) = 2
        /\ req[p].years[1][2] = <<1, 3>>
        /\ req[p].years[2][2] = <<2, 0>>
        /\ HasTotal(req[p].svg_content, req[p].years, 3)

-----------------------------------------------------------------------------
(* The burst at a window boundary *)

\* the calls of a subject admitted in the interval of length window_size that ends now
RECURSIVE AdmitsSince(_, _)
AdmitsSince(log, age) == IF age < 0 THEN 0 ELSE log[age] + AdmitsSince(log, age - 1)

AdmittedInInterval(k) == AdmitsSince(recent_admits[k], rate_limiter.window_size)

\* C21: no interval of length window_size holds more than 2 x max_requests admitted
\* calls of one subject.
BurstAtMostTwiceLimit ==
    \A k \in DOMAIN recent_admits : AdmittedInInterval(k) <= 2 * rate_limiter.max_requests

\* the same for the configurations with max_requests >= 1
BurstAtMostTwiceLimitPositive == rate_limiter.max_requests >= 1 => BurstAtMostTwiceLimit

\* 2 x MaxLimit calls were admitted in one interval of length window_size
BurstTwiceLimitReached ==
    /\ rate_limiter.max_requests = MaxLimit
    /\ AdmittedInInterval(SubjectA) = 2 * MaxLimit

-----------------------------------------------------------------------------
(* Termination *)

InFlight(q) == q.pc \notin {"idle", "done"}

\* the response of the request is the one of a call to GitHub that timed out
TimedOutResponse(q) ==
    /\ q.pc = "done"
    /\ q.resp = Response(500, TimedOut.error.msg, "", FALSE)

\* C22: every request in flight comes to its response unless the client hangs up
\* first, the ones waiting for the mutex of the counters included; a request whose
\* call to GitHub times out is answered 500 and leaves a CachedError of status 500
\* for its key, as one whose call fails in transport does.
EveryRequestReturns ==
    /\ \A r \in Reqs : InFlight(req[r]) ~> ~InFlight(req[r])
    /\ [][\A r \in Reqs :
             (Fails(r) /\ req'[r].failure = "GitHubFetchError")
             => /\ req'[r].resp.status = 500
                /\ Live(error_cache', req'[r].cache_key, ErrorCacheTtlSecs)
                /\ error_cache'[req'[r].cache_key].value.status = 500]_vars

\* a request whose content download timed out was answered 500, the error cache
\* holds the failure, and the other task waits for its call to GitHub
EveryRequestReturnsReached ==
    \E r, o \in Reqs :
        /\ TimedOutResponse(req[r])
        /\ req[r].via = "fetch_file_content"
        /\ Live(error_cache, req[r].cache_key, ErrorCacheTtlSecs)
        /\ error_cache[req[r].cache_key].value.status = 500
        /\ req[o].pc = "fetch_github_metadata"

-----------------------------------------------------------------------------
(* What the success cache holds and what a 200 carries *)

\* the renders of the valid contents
Renders == UNION {RendersOf(params) : params \in QueryParams}

\* an entry of cache d is new, or newer than in cache c, or holds another value
Inserts(c, d) ==
    \E k \in DOMAIN d :
        \/ k \notin DOMAIN c
        \/ d[k].value # c[k].value
        \/ Elapsed(d[k].inserted) < Elapsed(c[k].inserted)

\* C23: an entry is inserted into the success cache only by the step that publishes:
\* the request has made its metadata call and its content call, the size it was told
\* passed the size check, and what it inserts under its key and answers with is the
\* render of a content that validate_input accepts; no other step of a request
\* inserts, a request that fails answers no 200 and no render, and every entry of
\* the success cache and every body of a 200 is such a render.
NoSpeculativeArtifact ==
    /\ [](/\ \A k \in DOMAIN cache : cache[k].value \in Renders
          /\ \A r \in DOMAIN req :
                req[r].pc = "done" /\ req[r].resp.status = 200 => req[r].resp.body \in Renders)
    /\ [][/\ Inserts(cache, cache') =>
                \E r \in DOMAIN req :
                    /\ Publishes(r)
                    /\ req[r].metadata_calls = 1
                    /\ req[r].content_calls = 1
                    /\ ~FileSizeExceeds(req[r].metadata.size)
                    /\ req'[r].resp.body \in RendersOf(req[r].params)
                    /\ cache'[req[r].cache_key].value = req'[r].resp.body
          /\ \A r \in DOMAIN req :
                /\ Moves(r) /\ ~Publishes(r) => NothingInserted(cache, cache')
                /\ Fails(r) => /\ req'[r].resp.status # 200
                               /\ req'[r].resp.body \notin Renders]_vars

\* a request whose content validate_input rejected was answered 400 and the success
\* cache holds nothing for its key
NoSpeculativeArtifactReached ==
    \E r \in DOMAIN req :
        /\ req[r].pc = "done"
        /\ req[r].via = "validate_input"
        /\ req[r].resp.status = 400
        /\ req[r].content_calls = 1
        /\ req[r].cache_key \notin DOMAIN cache

-----------------------------------------------------------------------------
(* Concurrent misses *)

\* the task waits for an answer of GitHub
Upstream(q) == q.pc \in {"fetch_github_metadata", "fetch_file_content"}

\* C24: nothing makes a request wait for another request for the same resource:
\* whatever the other tasks are doing, a task can run the first step of handle_stars,
\* the lookup in the error cache and the match of check_rate_limit, and it can take
\* the mutex of the counters whenever no task is between the lock and the match; a
\* request that is admitted sends a metadata call of its own, and one whose file
\* passes the size check a content call of its own.
NoSingleFlight ==
    /\ [](\A r \in DOMAIN req :
            /\ req[r].pc = "idle" => ENABLED HandleStars(r, PathA, NoParams, NoHeaders)
            /\ req[r].pc = "check_error_cache" => ENABLED CheckErrorCache(r)
            /\ req[r].pc = "check_rate_limit" /\ counts_lock = {} => ENABLED RateLimitLock(r)
            /\ req[r].pc = "rate_limit_match" => ENABLED RateLimitMatch(r))
    /\ [][\A r \in DOMAIN req :
             /\ Decides(r) /\ Admitted(req'[r])
                    => req'[r].pc = "fetch_github_metadata" /\ req'[r].metadata_calls = 1
             /\ req[r].pc = "fetch_github_metadata" /\ Moves(r) /\ req'[r].pc \notin {"done", "idle"}
                    => req'[r].pc = "fetch_file_content" /\ req'[r].content_calls = 1]_vars

\* two requests for a resource that no request was admitted for before both wait
\* for the metadata, each for its own call, and neither cache holds the resource
NoSingleFlightReached ==
    \E r, o \in DOMAIN req :
        /\ req[r].pc = "fetch_github_metadata" /\ req[r].rl.branch = "first"
        /\ req[o].pc = "fetch_github_metadata" /\ req[o].rl.branch = "incremented"
        /\ req[r].cache_key = req[o].cache_key
        /\ req[r].metadata_calls = 1 /\ req[o].metadata_calls = 1
        /\ req[r].cache_key \notin DOMAIN cache \cup DOMAIN error_cache

-----------------------------------------------------------------------------
(* The map of the counters *)

\* the keys of the subjects that check_rate_limit has decided a call of
DecidedKeys == {ip_key(subject[1], subject[2]) : subject \in DOMAIN window_reqs}

\* C25: no step removes a counter from request_counts: a counter that exists stays,
\* its count kept, incremented by one or reset to 1, and the keys of the map are at
\* every moment the keys of the subjects that check_rate_limit has decided a call of.
CounterMapNeverShrinks ==
    /\ [](DOMAIN request_counts = DecidedKeys)
    /\ [][\A k \in DOMAIN request_counts :
             /\ k \in DOMAIN request_counts'
             /\ \/ request_counts'[k].count = request_counts[k].count
                \/ request_counts'[k].count = request_counts[k].count + 1
                \/ request_counts'[k].count = 1]_vars

\* a counter whose window has expired is still in the map after the counter of
\* another subject was created
CounterMapNeverShrinksReached ==
    \E k, j \in DOMAIN request_counts :
        /\ Elapsed(request_counts[k].window_start) > rate_limiter.window_size
        /\ Elapsed(request_counts[j].window_start) = 0
        /\ request_counts[j].count = 1

-----------------------------------------------------------------------------
(* The replay of a cached failure *)

\* task r is answered from the error cache
HitsErrorCache(r) == LooksUpErrors(r) /\ req'[r].via = "error_cache"

\* C26: a request answered from the error cache gets the body that the request which
\* inserted the entry was answered with.
NegativeReplayFaithful ==
    [][\A r \in DOMAIN req :
          (HitsErrorCache(r) /\ req[r].cache_key \in DOMAIN last_error)
          => req'[r].resp.body = last_error[req[r].cache_key].resp.body]_vars

\* the same for the failures of the size check and of the validation
NegativeReplayFaithfulLocal ==
    [][\A r \in DOMAIN req :
          (/\ HitsErrorCache(r)
           /\ req[r].cache_key \in DOMAIN last_error
           /\ last_error[req[r].cache_key].cached.status \in {400, 413})
          => req'[r].resp.body = last_error[req[r].cache_key].resp.body]_vars

-----------------------------------------------------------------------------
(* The two caches together *)

\* key k has a live entry in the success cache and a live entry in the error cache
BothLive(k) == Live(cache, k, CacheTtlSecs) /\ Live(error_cache, k, ErrorCacheTtlSecs)

\* C27: no key has a live entry in both caches, whatever the interleaving of the
\* requests.
CachesExclusive == \A k \in DOMAIN cache \cup DOMAIN error_cache : ~BothLive(k)

\* some request for key k was past the success lookup when the SVG was published and
\* past the error lookup when the failure was cached: the publishing request and
\* the failing request overlapped
Overlapped(k) ==
    /\ k \in DOMAIN last_publish
    /\ k \in DOMAIN last_error
    /\ last_publish[k].during \cap last_error[k].during # {}

\* C27 (amended): a key has a live entry in both caches only when the request that
\* published and the request that failed were in flight at the same time; requests
\* for a key that follow one another leave the key in one cache at most.
CachesExclusiveUnlessOverlapped ==
    \A k \in DOMAIN cache \cup DOMAIN error_cache : BothLive(k) => Overlapped(k)

\* a key is live in both caches: one task has published while the other, past both
\* lookups at that time, has failed
CachesExclusiveUnlessOverlappedReached ==
    \E k \in DOMAIN cache \cup DOMAIN error_cache :
        /\ BothLive(k)
        /\ \E r, o \in DOMAIN req :
               /\ r # o
               /\ req[r].pc = "done" /\ req[r].via = "generate_svg"
               /\ req[o].pc = "done" /\ req[o].failure # ""
               /\ req[r].cache_key = k /\ req[o].cache_key = k

-----------------------------------------------------------------------------
(* The quota in front of GitHub *)

\* task r sends the metadata request to GitHub
StartsMetadataCall(r) == req[r].metadata_calls = 0 /\ req'[r].metadata_calls = 1

\* the metadata request is sent by the step that admits the request and by no other
MetadataCallsGated ==
    [][\A r \in DOMAIN req :
          StartsMetadataCall(r) <=> (Decides(r) /\ Admitted(req'[r]))]_vars

\* C28: every metadata call to GitHub is made by a request that check_rate_limit has
\* admitted earlier in the same request, so that of one subject no more than
\* max_requests metadata calls are started within one window.
UpstreamGatedByQuota ==
    /\ MetadataCallsGated
    /\ [](\A k \in DOMAIN window_reqs :
             window_reqs[k].admitted <= rate_limiter.max_requests)

\* the same for the configurations with max_requests >= 1
UpstreamGatedByQuotaPositive ==
    /\ MetadataCallsGated
    /\ [](rate_limiter.max_requests >= 1 =>
             \A k \in DOMAIN window_reqs :
                 window_reqs[k].admitted <= rate_limiter.max_requests)

-----------------------------------------------------------------------------
(* The key of a counter *)

\* the subjects the requests can have: a client and a cache key
QuotaSubjects ==
    {<<get_client_ip(h), create_cache_key(c.user, c.repo, c.branch, c.file)>> :
        h \in ForwardedHeaders, c \in ColonPaths}

\* C29: the key of a counter, the client, a colon and the cache key, is injective: no
\* two different pairs of a client and a cache key give the same key, also when the
\* client or the cache key contains a colon.
CounterKeyInjective ==
    \A p \in DOMAIN req :
        req[p].pc = "locked" =>
            \A s \in QuotaSubjects :
                ip_key(s[1], s[2]) = req[p].ip_key
                => s = <<req[p].client_ip, req[p].cache_key>>

\* the same for the clients without a colon, as the addresses of IPv4 are
CounterKeyInjectiveNoColon ==
    \A p \in DOMAIN req :
        (req[p].pc = "locked" /\ IndexOf(req[p].client_ip, ":", 1) = 0) =>
            \A s \in QuotaSubjects :
                (IndexOf(s[1], ":", 1) = 0 /\ ip_key(s[1], s[2]) = req[p].ip_key)
                => s = <<req[p].client_ip, req[p].cache_key>>

-----------------------------------------------------------------------------
(* The key of a cache entry *)

\* the paths the requests can have
RoutedPaths == {PathOf(raw) : raw \in {x \in RawPaths : RouteMatches(x)}}

\* user, repo and branch of path c hold no slash
PlainSegments(c) ==
    IndexOf(c.user, "/", 1) = 0 /\ IndexOf(c.repo, "/", 1) = 0 /\ IndexOf(c.branch, "/", 1) = 0

\* C30: create_cache_key is injective: no two different tuples of user, repo, branch
\* and file give the same cache key, also when a component holds a slash.
CacheKeyInjective ==
    \A p \in DOMAIN req :
        req[p].pc = "check_success_cache" =>
            \A c \in RoutedPaths :
                create_cache_key(c.user, c.repo, c.branch, c.file) = req[p].cache_key
                => c = req[p].path

\* the same for the paths where the file alone may hold slashes
CacheKeyInjectivePlainSegments ==
    \A p \in DOMAIN req :
        (req[p].pc = "check_success_cache" /\ PlainSegments(req[p].path)) =>
            \A c \in RoutedPaths :
                (/\ PlainSegments(c)
                 /\ create_cache_key(c.user, c.repo, c.branch, c.file) = req[p].cache_key)
                => c = req[p].path

-----------------------------------------------------------------------------
(* The range of a counter *)

\* C31: every counter the map holds has a count of at least 1 and of at most
\* max_requests, whatever max_requests is configured, 0 and 1 included.
CounterInRange ==
    \A k \in DOMAIN request_counts :
        /\ 1 <= request_counts[k].count
        /\ request_counts[k].count <= rate_limiter.max_requests

\* the same for the configurations with max_requests >= 1
CounterInRangePositive == rate_limiter.max_requests >= 1 => CounterInRange

\* a counter has reached max_requests by increments
CounterInRangePositiveReached ==
    \E k \in DOMAIN request_counts :
        /\ rate_limiter.max_requests >= 2
        /\ request_counts[k].count = rate_limiter.max_requests

====
